---- MODULE Spec2Model ----
(***************************************************************************)
(* Identity & Funding Orchestrator of AgentMessage (mcp_xmtp).             *)
(*                                                                         *)
(*   Agent.registerId / Agent.recallId        src/mcp_xmtp/src/agent.ts    *)
(*   ESpaceFunding.fundESpaceAccount          src/mcp_xmtp/src/funding.ts  *)
(*   IdentityContract.getBalance / register   src/mcp_xmtp/src/contract.ts *)
(*                                                                         *)
(* One request is served at a time; every await of the handlers is a step *)
(* of its own.  The ledger, the funding RPC and the file system are the    *)
(* environment: each call to them either returns a value drawn from a      *)
(* small set or throws.                                                    *)
(*                                                                         *)
(* Balances are counted in units of 10^16 wei (0.01 CFX), the smallest     *)
(* threshold the code compares against.                                    *)
(***************************************************************************)
EXTENDS Integers, Sequences, FiniteSets, TLC

\* ---------------------------------------------------------------- bounds
MaxAgents == 1          \* registerId calls per behaviour
MaxOps == 2             \* group operations per behaviour
MaxNetChanges == 1      \* changes other clients make to the group
MaxTargets == 2         \* addresses passed to one group operation
MaxThreads == 2         \* goOnline calls served at the same time
MaxCalls == 3           \* goOnline calls per behaviour
MaxMessages == 3        \* messages in the agent's conversations
MaxLimit == 3           \* limit of a getMessages call
MaxBlocks == 3          \* blocks of a fee history (the code asks for 10)
MaxLogs == 3            \* Registered events the registry has emitted
MaxFunders == 2         \* fundESpaceAccount calls for one address at a time

\* ------------------------------------------------------ program constants
minBalance == 100       \* agent.ts:67    BigInt('1000000000000000000')
regMinBalance == 1      \* agent.ts:83    BigInt('10000000000000000')
defaultFundAmount == 10 \* funding.ts:18  parseFloat(... || '0.1')
Gwei == 2               \* contract.ts:76  toWei('1', 'gwei'); unit 0.5 gwei
maxAttempts == 30       \* funding.ts:71

\* ------------------------------------------------------------ input sets
Names == {"alice", "bob"}
Descriptions == {""}
Capabilities == {<< >>, <<"echo">>}
Passwords == {"default_password", "s3cret"}
\* values a balance read can return: below every threshold, between the
\* thresholds, and at or above the largest one
Balances == {0, regMinBalance, defaultFundAmount, minBalance}
\* parseFloat(ESPACE_FUND_AMOUNT_CFX || '0.1'): "0", unset, "1.0"
FundAmounts == {0, defaultFundAmount, minBalance}
\* crypto.randomBytes(16) of encryptAgentData (agent.ts:290)
IVs == {"iv1", "iv2"}

NoHash == <<"none", 0>>

\* crypto.randomBytes(32) of the k-th registerId call, '0x'-prefixed
\* (agent.ts:34-35); distinct calls draw distinct keys
PrivateKeyOf(k) == <<"0xkey", k>>
\* new ethers.Wallet(privateKey).address (agent.ts:36-37)
WalletAddress(privateKey) == <<"0x", privateKey[2]>>
NoAgent == <<"0x", 0>>
\* agent ids a caller may present: every generated address and one that
\* never exists
AgentIds == {WalletAddress(PrivateKeyOf(k)) : k \in 1..(MaxAgents + 1)}

VARIABLES
  env,        \* process environment read by the handlers
  agentData,  \* Agent.agentData: in-memory map agentId -> AgentData
  files,      \* ./agent_data/<agentId>.json : agentId -> encrypted record
  registry,   \* owner addresses with an entry in the on-chain registry
  keys,       \* number of private keys generated so far
  pc,         \* position of the request being served
  call,       \* locals of the registerId call of this request
  fund,       \* locals of the fundESpaceAccount call of this request
  obs,        \* what this request's registerId did to its environment
  result,     \* outcome of the last finished request
  returned,   \* agentId -> what its registerId call returned, and whether
              \* its funding call had failed
  net,        \* the group as the XMTP network holds it
  clients,    \* XMTPClient.clients: agentId -> local database of its client
  clientAddresses, \* XMTPClient.clientAddresses: agentId -> wallet address
  req,        \* locals of the group operation being served
  used,       \* group operations and network-side changes so far
  threads,    \* locals of the goOnline calls in progress
  created,    \* goOnline calls so far, and per agentId the clients
              \* Client.create made for it
  held,       \* agentId -> which of those clients XMTPClient.clients holds
  dms,        \* peer -> messages of the agent's conversation with it
  msg,        \* locals of the sendMessage or getMessages call being served
  tx,         \* locals of the IdentityContract.register call being served
  scan,       \* locals of the collectIdentities call being served
  espace,     \* eSpace balance of one address, and the transfers to it
              \* that are executed but not yet reflected in the balance
  funders,    \* locals of the fundESpaceAccount calls for that address
  groupMessages \* the messages the agents sent to the group, in order

idVars == <<env, agentData, files, registry, keys, pc, call, fund, obs,
            result, returned>>
groupVars == <<net, clients, clientAddresses, req, used>>
serviceVars ==
  <<threads, created, held, dms, msg, tx, scan, espace, funders,
    groupMessages>>
vars == <<idVars, groupVars, serviceVars>>

\* ------------------------------------------------------ Key & Secret Store
\* JSON.stringify of an AgentData object (agent.ts:293): the members in
\* insertion order (agent.ts:44-52) as key/value pairs
Stringify(data) ==
  << <<"name", data.name>>,
     <<"description", data.description>>,
     <<"capabilities", data.capabilities>>,
     <<"address", data.address>>,
     <<"xmtpAddress", data.xmtpAddress>>,
     <<"privateKey", data.privateKey>>,
     <<"isOnline", data.isOnline>> >>

\* JSON.parse of such a text (agent.ts:312): member lookup by key
Member(text, key) ==
  text[CHOOSE i \in 1..Len(text) : text[i][1] = key][2]

\* mutant: the capabilities member is not read back
ParseWithoutCapabilities(text) ==
  [name |-> Member(text, "name"),
   description |-> Member(text, "description"),
   capabilities |-> << >>,
   address |-> Member(text, "address"),
   xmtpAddress |-> Member(text, "xmtpAddress"),
   privateKey |-> Member(text, "privateKey"),
   isOnline |-> Member(text, "isOnline")]

Parse(text) ==
  [name |-> Member(text, "name"),
   description |-> Member(text, "description"),
   capabilities |-> Member(text, "capabilities"),
   address |-> Member(text, "address"),
   xmtpAddress |-> Member(text, "xmtpAddress"),
   privateKey |-> Member(text, "privateKey"),
   isOnline |-> Member(text, "isOnline")]

\* crypto.scryptSync(password, 'salt', 32) (agent.ts:289, 304)
Scrypt(password) == <<"scrypt", password, "salt">>

\* Agent.encryptAgentData (agent.ts:288-300); iv is the randomBytes(16)
encryptAgentData(data, password, iv) ==
  [iv |-> iv,
   encrypted |-> [key |-> Scrypt(password), iv |-> iv,
                  plain |-> Stringify(data)]]

\* mutant: nothing is checked; another key gives back a damaged identity
decryptUnchecked(record, password) ==
  IF record.encrypted.key = Scrypt(password) /\ record.encrypted.iv = record.iv
    THEN [ok |-> TRUE, data |-> Parse(record.encrypted.plain)]
    ELSE [ok |-> TRUE,
          data |-> [Parse(record.encrypted.plain) EXCEPT
                      !.name = "damaged", !.privateKey = <<"0xkey", "damaged">>]]

\* Agent.decryptAgentData (agent.ts:302-313).  aes-256-cbc under another
\* key ends in a padding error of decipher.final or in bytes JSON.parse
\* rejects; both throw.
decryptAgentData(record, password) ==
  IF record.encrypted.key = Scrypt(password) /\ record.encrypted.iv = record.iv
    THEN [ok |-> TRUE, data |-> Parse(record.encrypted.plain)]
    ELSE [ok |-> FALSE, data |-> "bad decrypt"]

\* ------------------------------------------------------------- map helper
Put(map, key, value) ==
  [k \in (DOMAIN map) \cup {key} |-> IF k = key THEN value ELSE map[k]]

\* ------------------------------------------------ group conversation data
\* agent ids a caller may present; an agentId is the checksummed wallet
\* address (agent.ts:36-37).  OnlineAgents went online (agent.ts:160-177),
\* "0xFf" is registered only, "0x99" is unknown to this server.
OnlineAgents == {"0xAa", "0xBb", "0xEe"}
RegisteredAgents == OnlineAgents \cup {"0xFf"}
GroupAgents == RegisteredAgents \cup {"0x99"}
\* inboxes registered on the XMTP network
Inboxes == {"ia", "ib", "ic", "id", "ie"}
NoInbox == ""
NoAddress == ""
\* addresses a caller may pass as participants or targets
Addresses == {"0xBb", "0xbb", "0xdd"}

\* String.prototype.toLowerCase on the addresses above
LowerCase ==
  ("0xAa" :> "0xaa") @@ ("0xBb" :> "0xbb") @@ ("0xEe" :> "0xee") @@
  ("0xFf" :> "0xff")
toLowerCase(a) == IF a \in DOMAIN LowerCase THEN LowerCase[a] ELSE a

\* GroupMember.accountIdentifiers of each inbox: its Ethereum identifiers
AccountIdentifiers ==
  ("ia" :> <<"0xaa">>) @@ ("ib" :> <<"0xbb">>) @@ ("ic" :> <<"0xcc">>) @@
  ("id" :> <<"0xdd">>) @@ ("ie" :> <<"0xee">>)

Range(seq) == {seq[i] : i \in 1..Len(seq)}

\* the network's resolution of an identifier passed to
\* addMembersByIdentifiers (xmtp-client.ts:387)
InboxOfIdentifier(identifier) ==
  IF \E i \in Inboxes : identifier \in Range(AccountIdentifiers[i])
    THEN CHOOSE i \in Inboxes : identifier \in Range(AccountIdentifiers[i])
    ELSE NoInbox

\* a client's local database before its first synchronisation: the group
\* is not among its conversations
NoDb == [known |-> FALSE, members |-> {}, admins |-> {}, superAdmins |-> {}]

\* mutant: a database that knows the group is not synchronised again
CachedDb(db, inboxId, group) ==
  IF db.known THEN db
  ELSE IF inboxId \in group.members
    THEN [known |-> TRUE, members |-> group.members,
          admins |-> group.admins, superAdmins |-> group.superAdmins]
    ELSE db

\* conversations.sync / conversation.sync (xmtp-client.ts:355-361,
\* 545-551): the local database takes the network's state of the group; a
\* client learns of the group when its inbox is a member
SyncedDb(db, inboxId, group) ==
  IF db.known \/ inboxId \in group.members
    THEN [known |-> TRUE, members |-> group.members,
          admins |-> group.admins, superAdmins |-> group.superAdmins]
    ELSE db

\* the inbox of an agent's client (Client.create, xmtp-client.ts:56)
InboxOfAgent(agentId) == InboxOfIdentifier(toLowerCase(agentId))

\* Array.from(new Set(addresses.map(a => a.toLowerCase())))
\* (xmtp-client.ts:375, 424, 497): first occurrences, in order
RECURSIVE Unique(_)
Unique(seq) ==
  IF seq = << >> THEN << >>
  ELSE LET init == Unique(SubSeq(seq, 1, Len(seq) - 1))
           last == seq[Len(seq)]
       IN IF last \in Range(init) THEN init ELSE Append(init, last)

\* mutant: lower-cased, duplicates kept
LowerCasedOnly(addresses) ==
  [i \in 1..Len(addresses) |-> toLowerCase(addresses[i])]

\* mutant: duplicates dropped, case kept
UniqueOnly(addresses) == Unique(addresses)

UniqueLowerCased(addresses) ==
  Unique([i \in 1..Len(addresses) |-> toLowerCase(addresses[i])])

\* listGroupMembers (xmtp-client.ts:554-593) on a synchronised database:
\* each member with its inbox id and its first Ethereum identifier
AddressOfMember(inboxId) ==
  IF Len(AccountIdentifiers[inboxId]) > 0
    THEN toLowerCase(AccountIdentifiers[inboxId][1])
    ELSE NoAddress

\* mutant: the listing has every inbox the network knows, in the group or
\* not
MembershipOfEveryInbox(db) ==
  [members |-> {[address |-> AddressOfMember(i), inboxId |-> i] :
                  i \in Inboxes},
   admins |-> db.admins,
   superAdmins |-> db.superAdmins]

\* mutant: conversation.admins is not taken for an array, and no admin is
\* listed
MembershipWithoutAdmins(db) ==
  [members |-> {[address |-> AddressOfMember(i), inboxId |-> i] :
                  i \in db.members},
   admins |-> {},
   superAdmins |-> db.superAdmins]

Membership(db) ==
  [members |-> {[address |-> AddressOfMember(i), inboxId |-> i] :
                  i \in db.members},
   admins |-> db.admins,
   superAdmins |-> db.superAdmins]

NoMembership == [members |-> {}, admins |-> {}, superAdmins |-> {}]

\* mutant: a caller that matches no member is taken for the group's first
\* super admin
CallerInboxOrSuperAdmin(callerAddr, membership) ==
  IF \E m \in membership.members : m.address = callerAddr
    THEN (CHOOSE m \in membership.members : m.address = callerAddr).inboxId
    ELSE IF membership.superAdmins # {}
      THEN CHOOSE i \in membership.superAdmins : TRUE
      ELSE NoInbox

\* getCallerInboxId (xmtp-client.ts:336-337) on a member list
CallerInbox(callerAddr, membership) ==
  IF \E m \in membership.members : m.address = callerAddr
    THEN (CHOOSE m \in membership.members : m.address = callerAddr).inboxId
    ELSE NoInbox

\* mutant: every resolved caller may add members
AnyMemberAuthorized(kind, db, inboxId) ==
  IF kind = "addMembers" THEN TRUE ELSE inboxId \in db.superAdmins

\* mutant: admins may change roles too
AdminsAuthorized(kind, db, inboxId) ==
  inboxId \in db.admins \/ inboxId \in db.superAdmins

\* conversation.isAdmin / isSuperAdmin on the local database and the tests
\* of xmtp-client.ts:368-372, 419-422, 492-495
Authorized(kind, db, inboxId) ==
  IF kind = "addMembers"
    THEN inboxId \in db.admins \/ inboxId \in db.superAdmins
    ELSE inboxId \in db.superAdmins

\* mutant: the role sets are not consulted
ClassifyIgnoringRoles(kind, addr, membership) ==
  IF ~\E m \in membership.members : m.address = addr
    THEN "notFound" ELSE "request"

\* xmtp-client.ts:446-454, 516-524: what the loop does with one target
Classify(kind, addr, membership) ==
  IF ~\E m \in membership.members : m.address # NoAddress /\ m.address = addr
    THEN "notFound"
    ELSE LET inbox == (CHOOSE m \in membership.members :
                         m.address = addr).inboxId
         IN IF kind = "addAdmins"
              THEN IF inbox \in membership.admins
                      \/ inbox \in membership.superAdmins
                     THEN "already" ELSE "request"
              ELSE IF inbox \notin membership.admins
                     THEN "already" ELSE "request"

\* addrToInbox.get(addr) (xmtp-client.ts:431-434, 446)
InboxOfTarget(addr, membership) ==
  (CHOOSE m \in membership.members : m.address = addr).inboxId

\* ------------------------------------------------------------ initial state
\* no balance has been read
NoBalance == 0 - 1

NoCall ==
  [agentId |-> NoAgent, name |-> "", description |-> "",
   capabilities |-> << >>, privateKey |-> PrivateKeyOf(0),
   site |-> "none"]

\* fundESpaceAccount has no state of its own besides its locals; the other
\* fields record what the call has done so far
NoFund ==
  [status |-> "idle",     \* idle | running | ok | <message of the Error thrown>
   fundAmountCfx |-> 0,   \* funding.ts:18
   attempts |-> 0,        \* funding.ts:70
   path |-> << >>,        \* phases entered, in order
   reads |-> 0,           \* balance reads that returned (funding.ts:41, 74)
   firstRead |-> "none",  \* what the read of funding.ts:41 returned:
                          \* none | sufficient | insufficient
   sawSufficient |-> FALSE, \* some read returned a balance >= fundAmountCfx
   transfers |-> 0,       \* transferEVM transactions sent (funding.ts:60-64)
   outcomeStatus |-> "none", \* none | rejected | success | failed
   pollReads |-> 0,       \* balance reads issued by the loop (funding.ts:74)
   pollHit |-> 0,         \* index of the first loop read that saw enough
   waits |-> 0]           \* setTimeout waits of the loop (funding.ts:83)

NoObs ==
  [persisted |-> FALSE,   \* saveEncryptedData resolved
   balanceReads |-> 0,    \* contract.getBalance calls (agent.ts:66, 79)
   firstRead |-> "none",  \* the balance of agent.ts:66 against minBalance:
                          \* none | below | enough
   newBalance |-> NoBalance, \* what the read of agent.ts:79 returned
   balanceThrew |-> FALSE,
   fundCalls |-> 0,       \* fundESpaceAccount calls (agent.ts:75)
   registerCalls |-> 0,   \* contract.register calls (agent.ts:93, 112)
   submitted |-> 0,       \* sendSignedTransaction calls (contract.ts:117)
   succeeded |-> 0]       \* of which resolved with a receipt

NoResult == [op |-> "none", ok |-> TRUE]

\* the group after newGroup: the creator is its super admin
\* (xmtp-client.ts:141-170); admins were named by it since
InitialGroup(admins) ==
  [members |-> {"ia", "ib", "ic"}, admins |-> admins,
   superAdmins |-> {"ia"}]

\* the locals of addMembersToGroupByAddresses, addAdminsByAddresses and
\* removeAdminsByAddresses; the fields after error record what the call
\* has done and seen so far
NoReq ==
  [kind |-> "none", agentId |-> "", addresses |-> << >>,
   pc |-> "idle",          \* idle | sync | caller | add | list | loop | done
   callerInboxId |-> NoInbox,
   targets |-> << >>,      \* uniqueAddrs / targetAddrs
   idx |-> 1,              \* position of the loop in targets
   membership |-> NoMembership, \* xmtp-client.ts:430, 502
   changed |-> << >>,      \* promoted / demoted
   already |-> << >>,      \* alreadyAdmin / notAdmin
   notFound |-> << >>,
   failed |-> << >>,
   added |-> << >>,
   error |-> "none",       \* message of the Error the call rejected with
   requests |-> << >>,     \* mutation requests sent to the network
   outcomes |-> << >>,     \* and how each of them ended: ok | failed
   authorized |-> FALSE,   \* the permission test was passed
   syncs |-> 0,            \* synchronisations completed by this call
   changesAtStart |-> 0,   \* network-side changes made before the call
   groupAtStart |-> NoMembership, \* the network's group when called,
   groupAtCheck |-> NoMembership, \* at the permission test
   groupAtList |-> NoMembership,  \* and at xmtp-client.ts:430, 502
   membersBefore |-> {},   \* the network's members before and after the
   membersAfter |-> {}]    \* request of xmtp-client.ts:387

NoUse == [ops |-> 0, changes |-> 0, authorizedBefore |-> {}]

\* no goOnline call is in progress
NoThreads == << >>
\* no client was created
NoCreated == [calls |-> 0, clients |-> << >>, overlapped |-> << >>]
\* no sendMessage or getMessages call is being served
NoMsg ==
  [op |-> "none", pc |-> "idle", agentId |-> "", recipient |-> "",
   contentType |-> "undefined", replyTo |-> FALSE, conversationId |-> "",
   limit |-> 0, conversations |-> << >>, idx |-> 1, perConv |-> 0,
   messages |-> 0, requests |-> << >>, error |-> "none", cause |-> "none",
   encoding |-> "none"]   \* content type the message was sent with
\* no register call is being served
NoTx ==
  [pc |-> "idle", hasBaseFee |-> FALSE, baseFee |-> 0, sampled |-> "none",
   reward |-> << >>, baseFeePerGas |-> << >>, type |-> 0,
   maxPriorityFeePerGas |-> 0, maxFeePerGas |-> 0, gasPrice |-> 0,
   signed |-> FALSE, submitted |-> FALSE, error |-> "none"]
\* no collectIdentities call is being served
NoScan ==
  [pc |-> "idle", owners |-> << >>, idx |-> 1, entries |-> << >>,
   skipped |-> << >>, logsFailed |-> FALSE, threw |-> FALSE]

\* an address nothing has been sent to
NoESpace == [balance |-> 0, pending |-> 0]

NoServiceActivity ==
  /\ threads = NoThreads
  /\ created = NoCreated
  /\ held = << >>
  /\ dms = << >>
  /\ msg = NoMsg
  /\ tx = NoTx
  /\ scan = NoScan
  /\ espace = NoESpace
  /\ funders = << >>
  /\ groupMessages = << >>

NoGroupActivity ==
  /\ net = InitialGroup({})
  /\ clients = << >>
  /\ clientAddresses = << >>
  /\ req = NoReq
  /\ used = NoUse

Init ==
  /\ env \in [coreRpcUrl : BOOLEAN, corePk : BOOLEAN,
              fundAmountCfx : FundAmounts, password : Passwords]
  /\ agentData = << >>
  /\ files = << >>
  /\ registry = {}
  /\ keys = 0
  /\ pc = "idle"
  /\ call = NoCall
  /\ fund = NoFund
  /\ obs = NoObs
  /\ result = NoResult
  /\ returned = << >>
  /\ NoGroupActivity
  /\ NoServiceActivity

\* --------------------------------------------------------- Agent.registerId
\* agent.ts:44-52
AgentDataOf(c) ==
  [name |-> c.name, description |-> c.description,
   capabilities |-> c.capabilities, address |-> c.agentId,
   xmtpAddress |-> c.agentId, privateKey |-> c.privateKey,
   isOnline |-> FALSE]

\* agent.ts:120-129: the value registerId resolves with
RegistrationResult(c, txHash) ==
  [op |-> "registerId", ok |-> TRUE, agent_id |-> c.agentId,
   name |-> c.name, description |-> c.description,
   capabilities |-> c.capabilities, address |-> c.agentId,
   xmtp_address |-> c.agentId, tx_hash |-> txHash,
   status |-> "new_agent_registered"]

\* positions inside fundESpaceAccount
FundingPcs == {"fund", "fund_check", "fund_transfer", "fund_poll"}

\* agent.ts:120-129, reached from every path below the save; the return is
\* reached from a position inside fundESpaceAccount exactly when that call
\* rejected
Return(txHash) ==
  /\ result' = RegistrationResult(call, txHash)
  /\ returned' = Put(returned, call.agentId,
                     [result |-> RegistrationResult(call, txHash),
                      fundingFailed |-> pc \in FundingPcs])
  /\ pc' = "idle"

\* agent.ts:34-55: draw a key, derive the address, fill the in-memory table
RegisterId(name, description, capabilities) ==
  /\ pc = "idle"
  /\ keys < MaxAgents
  /\ keys' = keys + 1
  /\ LET privateKey == PrivateKeyOf(keys + 1)
         c == [agentId |-> WalletAddress(privateKey), name |-> name,
               description |-> description, capabilities |-> capabilities,
               privateKey |-> privateKey, site |-> "none"]
     IN /\ call' = c
        /\ agentData' = Put(agentData, c.agentId, AgentDataOf(c))
  /\ fund' = NoFund
  /\ obs' = NoObs
  /\ result' = NoResult
  /\ pc' = "save"
  /\ UNCHANGED <<groupVars, serviceVars, env, files, registry, returned>>

\* mutant: the record is encrypted under the built-in password whatever
\* AGENTMESSAGE_ENCRYPTION_PASSWORD says
SaveWithDefaultPassword ==
  /\ pc = "save"
  /\ \/ \E iv \in IVs :
          /\ files' = Put(files, call.agentId,
                          encryptAgentData(AgentDataOf(call),
                                           "default_password", iv))
          /\ obs' = [obs EXCEPT !.persisted = TRUE]
          /\ pc' = "balance"
          /\ UNCHANGED result
     \/ /\ result' = [op |-> "registerId", ok |-> FALSE,
                      error |-> "writeFile failed"]
        /\ pc' = "idle"
        /\ UNCHANGED <<files, obs>>
  /\ UNCHANGED <<groupVars, serviceVars, env, agentData, registry, keys, call, fund, returned>>

\* mutant: the save sits inside the try block, so its rejection is logged
\* and the call carries on
SaveFailureSwallowed ==
  /\ pc = "save"
  /\ \/ \E iv \in IVs :
          /\ files' = Put(files, call.agentId,
                          encryptAgentData(AgentDataOf(call), env.password, iv))
          /\ obs' = [obs EXCEPT !.persisted = TRUE]
     \/ UNCHANGED <<files, obs>>
  /\ pc' = "balance"
  /\ UNCHANGED <<groupVars, serviceVars, env, agentData, registry, keys, call, fund, result, returned>>

\* agent.ts:58-60 with saveEncryptedData (agent.ts:315-319): the write
\* resolves, or ensureDir/writeFile rejects and registerId rejects with it
\* (the await is outside the try block)
SaveEncryptedData ==
  /\ pc = "save"
  /\ \/ \E iv \in IVs :
          /\ files' = Put(files, call.agentId,
                          encryptAgentData(AgentDataOf(call), env.password, iv))
          /\ obs' = [obs EXCEPT !.persisted = TRUE]
          /\ pc' = "balance"
          /\ UNCHANGED result
     \/ /\ result' = [op |-> "registerId", ok |-> FALSE,
                      error |-> "writeFile failed"]
        /\ pc' = "idle"
        /\ UNCHANGED <<files, obs>>
  /\ UNCHANGED <<groupVars, serviceVars, env, agentData, registry, keys, call, fund, returned>>

\* agent.ts:69
NeedsFunding(balance) == balance < minBalance

\* mutant: the first balance read sits before the try block
GetBalanceUncaught ==
  /\ pc = "balance"
  /\ \/ \E balance \in Balances :
          /\ obs' = [obs EXCEPT !.balanceReads = @ + 1,
                                !.firstRead = IF balance < minBalance
                                                THEN "below" ELSE "enough"]
          /\ IF NeedsFunding(balance)
               THEN /\ pc' = "fund"
                    /\ call' = [call EXCEPT !.site = "funded"]
               ELSE /\ pc' = "register"
                    /\ call' = [call EXCEPT !.site = "direct"]
          /\ UNCHANGED <<result, returned>>
     \/ /\ obs' = [obs EXCEPT !.balanceReads = @ + 1, !.balanceThrew = TRUE]
        /\ result' = [op |-> "registerId", ok |-> FALSE,
                      error |-> "getBalance failed"]
        /\ pc' = "idle"
        /\ UNCHANGED <<call, returned>>
  /\ UNCHANGED <<groupVars, serviceVars, env, agentData, files, registry, keys, fund>>

\* agent.ts:66-69, 102: first balance read; a rejection lands in the outer
\* catch (agent.ts:115-118)
GetBalance ==
  /\ pc = "balance"
  /\ \/ \E balance \in Balances :
          /\ obs' = [obs EXCEPT !.balanceReads = @ + 1,
                                !.firstRead = IF balance < minBalance
                                                THEN "below" ELSE "enough"]
          /\ IF NeedsFunding(balance)
               THEN /\ pc' = "fund"
                    /\ call' = [call EXCEPT !.site = "funded"]
               ELSE /\ pc' = "register"
                    /\ call' = [call EXCEPT !.site = "direct"]
          /\ UNCHANGED <<result, returned>>
     \/ /\ obs' = [obs EXCEPT !.balanceReads = @ + 1, !.balanceThrew = TRUE]
        /\ Return(NoHash)
        /\ UNCHANGED call
  /\ UNCHANGED <<groupVars, serviceVars, env, agentData, files, registry, keys, fund>>

\* ------------------------------------------ ESpaceFunding.fundESpaceAccount
\* mutant: strict comparison
HasMoreThanAmount(balanceEth, fundAmountCfx) == balanceEth > fundAmountCfx

\* funding.ts:44, 77 (both sides in CFX, as parsed by the code)
HasSufficientBalance(balanceEth, fundAmountCfx) == balanceEth >= fundAmountCfx

\* mutant: off by one in the loop condition
PollAgainOffByOne(attempts) == attempts <= maxAttempts

\* the message of the Error thrown at funding.ts:87
TimeoutMessage == "eSpace balance did not update within expected time"

\* funding.ts:73
PollAgain(attempts) == attempts < maxAttempts

\* mutant: the rejection is swallowed and registerId goes on as if funded
FundThrowSwallowed(f, message) ==
  /\ fund' = [f EXCEPT !.status = message, !.path = Append(@, "Failed")]
  /\ pc' = "rebalance"
  /\ UNCHANGED <<result, returned>>

\* fundESpaceAccount rejects: registerId's inner catch (agent.ts:98-101)
\* logs it and falls through to the return statement
FundThrow(f, message) ==
  /\ fund' = [f EXCEPT !.status = message, !.path = Append(@, "Failed")]
  /\ Return(NoHash)

\* fundESpaceAccount resolves (funding.ts:46, 79); back to agent.ts:76
FundDone(f) ==
  /\ fund' = [f EXCEPT !.status = "ok", !.path = Append(@, "Done")]
  /\ pc' = "rebalance"
  /\ UNCHANGED <<result, returned>>

\* funding.ts:21
ConfigurationRequired == "CORE_RPC_URL and CORE_PK are required"

\* mutant: the call is refused only when both settings are missing
UnconfiguredBoth(e) == ~e.coreRpcUrl /\ ~e.corePk

\* funding.ts:20: !coreRpcUrl || !corePk
Unconfigured(e) == ~e.coreRpcUrl \/ ~e.corePk

\* agent.ts:73-75 and funding.ts:16-37: the configuration checks, which
\* run before the first await
FundESpaceAccount ==
  /\ pc = "fund"
  /\ obs' = [obs EXCEPT !.fundCalls = @ + 1]
  /\ LET f == [NoFund EXCEPT !.status = "running",
                             !.fundAmountCfx = env.fundAmountCfx]
     IN IF Unconfigured(env)
          THEN FundThrow(f, ConfigurationRequired)
          ELSE IF f.fundAmountCfx <= 0
            THEN FundThrow(f, "ESPACE_FUND_AMOUNT_CFX must be greater than 0")
            ELSE /\ fund' = [f EXCEPT !.path = <<"CheckBalance">>]
                 /\ pc' = "fund_check"
                 /\ UNCHANGED <<result, returned>>
  /\ UNCHANGED <<groupVars, serviceVars, env, agentData, files, registry, keys, call>>

\* mutant: the early return of funding.ts:44-47 is missing
CheckBalanceAlwaysTransfers ==
  /\ pc = "fund_check"
  /\ \/ \E currentBalanceEth \in Balances :
          /\ fund' = [fund EXCEPT
                        !.reads = @ + 1,
                        !.firstRead =
                           IF currentBalanceEth >= fund.fundAmountCfx
                             THEN "sufficient" ELSE "insufficient",
                        !.sawSufficient =
                           @ \/ currentBalanceEth >= fund.fundAmountCfx,
                        !.path = Append(@, "Transfer")]
          /\ pc' = "fund_transfer"
          /\ UNCHANGED <<result, returned>>
     \/ FundThrow(fund, "getBalance failed")
  /\ UNCHANGED <<groupVars, serviceVars, env, agentData, files, registry, keys, call, obs>>

\* funding.ts:40-47: the read is outside the try block; its rejection is
\* the call's rejection
CheckBalance ==
  /\ pc = "fund_check"
  /\ \/ \E currentBalanceEth \in Balances :
          LET f == [fund EXCEPT
                      !.reads = @ + 1,
                      !.firstRead =
                         IF currentBalanceEth >= fund.fundAmountCfx
                           THEN "sufficient" ELSE "insufficient",
                      !.sawSufficient =
                         @ \/ currentBalanceEth >= fund.fundAmountCfx]
          IN IF HasSufficientBalance(currentBalanceEth, fund.fundAmountCfx)
               THEN FundDone(f)
               ELSE /\ fund' = [f EXCEPT !.path = Append(@, "Transfer")]
                    /\ pc' = "fund_transfer"
                    /\ UNCHANGED <<result, returned>>
     \/ FundThrow(fund, "getBalance failed")
  /\ UNCHANGED <<groupVars, serviceVars, env, agentData, files, registry, keys, call, obs>>

\* mutant: a receipt with a success outcome is taken as proof of funding
TransferTrustsReceipt ==
  /\ pc = "fund_transfer"
  /\ \/ FundDone([fund EXCEPT !.transfers = @ + 1,
                              !.outcomeStatus = "success"])
     \/ /\ fund' = [fund EXCEPT !.transfers = @ + 1,
                                !.outcomeStatus = "failed",
                                !.attempts = 0,
                                !.path = Append(@, "PollBalance")]
        /\ pc' = "fund_poll"
        /\ UNCHANGED <<result, returned>>
     \/ \E sent \in BOOLEAN :
          FundThrow([fund EXCEPT !.transfers = @ + (IF sent THEN 1 ELSE 0),
                                 !.outcomeStatus = "rejected"],
                    "transfer failed")
  /\ UNCHANGED <<groupVars, serviceVars, env, agentData, files, registry, keys, call, obs>>

\* funding.ts:58-70: send the cross-space transfer and await its receipt.
\* The receipt's outcomeStatus is only logged (funding.ts:67); a rejection
\* of sendTransaction/executed is rethrown by the catch (funding.ts:88-91).
Transfer ==
  /\ pc = "fund_transfer"
  /\ \/ \E outcomeStatus \in {"success", "failed"} :
          /\ fund' = [fund EXCEPT !.transfers = @ + 1,
                                  !.outcomeStatus = outcomeStatus,
                                  !.attempts = 0,
                                  !.path = Append(@, "PollBalance")]
          /\ pc' = "fund_poll"
          /\ UNCHANGED <<result, returned>>
     \/ \E sent \in BOOLEAN :
          FundThrow([fund EXCEPT !.transfers = @ + (IF sent THEN 1 ELSE 0),
                                 !.outcomeStatus = "rejected"],
                    "transfer failed")
  /\ UNCHANGED <<groupVars, serviceVars, env, agentData, files, registry, keys, call, obs>>

\* mutant: the loop forgets attempts++ (funding.ts:84)
PollBalanceNeverCounts ==
  /\ pc = "fund_poll"
  /\ IF PollAgain(fund.attempts)
       THEN \/ \E newBalanceEth \in Balances :
                 LET f == [fund EXCEPT
                             !.reads = @ + 1,
                             !.pollReads = @ + 1,
                             !.sawSufficient =
                                @ \/ newBalanceEth >= fund.fundAmountCfx]
                 IN IF HasSufficientBalance(newBalanceEth, fund.fundAmountCfx)
                      THEN FundDone(f)
                      ELSE /\ fund' = [f EXCEPT !.waits = @ + 1]
                           /\ UNCHANGED <<pc, result, returned>>
            \/ FundThrow([fund EXCEPT !.pollReads = @ + 1],
                         "getBalance failed")
       ELSE FundThrow(fund, TimeoutMessage)
  /\ UNCHANGED <<groupVars, serviceVars, env, agentData, files, registry, keys, call, obs>>

\* funding.ts:73-87: one turn of the loop, or the throw after it
PollBalance ==
  /\ pc = "fund_poll"
  /\ IF PollAgain(fund.attempts)
       THEN \/ \E newBalanceEth \in Balances :
                 LET f == [fund EXCEPT
                             !.reads = @ + 1,
                             !.pollReads = @ + 1,
                             !.sawSufficient =
                                @ \/ newBalanceEth >= fund.fundAmountCfx,
                             !.pollHit =
                                IF @ = 0 /\ newBalanceEth >= fund.fundAmountCfx
                                  THEN fund.pollReads + 1 ELSE @]
                 IN IF HasSufficientBalance(newBalanceEth, fund.fundAmountCfx)
                      THEN FundDone(f)
                      ELSE /\ fund' = [f EXCEPT !.waits = @ + 1,
                                                !.attempts = @ + 1]
                           /\ UNCHANGED <<pc, result, returned>>
            \/ FundThrow([fund EXCEPT !.pollReads = @ + 1],
                         "getBalance failed")
       ELSE FundThrow(fund, TimeoutMessage)
  /\ UNCHANGED <<groupVars, serviceVars, env, agentData, files, registry, keys, call, obs>>

\* --------------------------------------- registerId after the funding call
\* mutant: the re-read balance is not compared with anything
CanRegisterOnAnyBalance(newBalance) == newBalance >= 0

\* agent.ts:83
CanRegisterAfterFunding(newBalance) == newBalance >= regMinBalance

\* agent.ts:78-97: re-read the balance; a rejection lands in the inner catch
VerifyBalance ==
  /\ pc = "rebalance"
  /\ \/ \E newBalance \in Balances :
          /\ obs' = [obs EXCEPT !.balanceReads = @ + 1,
                                !.newBalance = newBalance]
          /\ IF CanRegisterAfterFunding(newBalance)
               THEN /\ pc' = "register"
                    /\ UNCHANGED <<result, returned>>
               ELSE Return(NoHash)
     \/ /\ obs' = [obs EXCEPT !.balanceReads = @ + 1, !.balanceThrew = TRUE]
        /\ Return(NoHash)
  /\ UNCHANGED <<groupVars, serviceVars, env, agentData, files, registry, keys, call, fund>>

\* ------------------------------------------------ IdentityContract.register
\* receipt.transactionHash of the registration sent for an address
TransactionHash(address) == <<"txhash", address[2]>>

\* agent.ts:93, 112 and contract.ts:37-114: chain id, latest block, nonce
\* and fee reads, then the transaction object; any rejection is caught by
\* registerId (agent.ts:98 or 115)
Register ==
  /\ pc = "register"
  /\ obs' = [obs EXCEPT !.registerCalls = @ + 1]
  /\ \/ /\ pc' = "send"
        /\ UNCHANGED <<result, returned>>
     \/ Return(NoHash)
  /\ UNCHANGED <<groupVars, serviceVars, env, agentData, files, registry, keys, call, fund>>

\* mutant: the hash is taken from the signed transaction, before the
\* broadcast is known to have succeeded
SendKeepsHashOnFailure ==
  /\ pc = "send"
  /\ \/ /\ obs' = [obs EXCEPT !.submitted = @ + 1, !.succeeded = @ + 1]
        /\ registry' = registry \cup {call.agentId}
        /\ Return(TransactionHash(call.agentId))
     \/ /\ obs' = [obs EXCEPT !.submitted = @ + 1]
        /\ Return(TransactionHash(call.agentId))
        /\ UNCHANGED registry
     \/ /\ Return(NoHash)
        /\ UNCHANGED <<obs, registry>>
  /\ UNCHANGED <<groupVars, serviceVars, env, agentData, files, keys, call, fund>>

\* contract.ts:116-119: sign, broadcast, await the receipt
SendSignedTransaction ==
  /\ pc = "send"
  /\ \/ /\ obs' = [obs EXCEPT !.submitted = @ + 1, !.succeeded = @ + 1]
        /\ registry' = registry \cup {call.agentId}
        /\ Return(TransactionHash(call.agentId))
     \/ /\ obs' = [obs EXCEPT !.submitted = @ + 1]
        /\ Return(NoHash)
        /\ UNCHANGED registry
     \/ /\ Return(NoHash)               \* signTransaction rejected
        /\ UNCHANGED <<obs, registry>>
  /\ UNCHANGED <<groupVars, serviceVars, env, agentData, files, keys, call, fund>>

\* ----------------------------------------------------------- Agent.recallId
\* agent.ts:146-157; loadEncryptedData (agent.ts:321-324) rejects when the
\* file is missing
RecallId(agent_id, password) ==
  /\ pc = "idle"
  /\ result' =
       IF agent_id \notin DOMAIN files
         THEN [op |-> "recallId", ok |-> FALSE, agent_id |-> agent_id,
               password |-> password, error |-> "ENOENT"]
         ELSE LET existing == decryptAgentData(files[agent_id], password)
              IN IF existing.ok
                   THEN [op |-> "recallId", ok |-> TRUE,
                         agent_id |-> agent_id, password |-> password,
                         name |-> existing.data.name,
                         description |-> existing.data.description,
                         capabilities |-> existing.data.capabilities,
                         address |-> existing.data.address,
                         xmtp_address |-> existing.data.xmtpAddress,
                         status |-> "existing_identity_returned"]
                   ELSE [op |-> "recallId", ok |-> FALSE,
                         agent_id |-> agent_id, password |-> password,
                         error |-> existing.data]
  /\ call' = NoCall
  /\ fund' = NoFund
  /\ obs' = NoObs
  /\ UNCHANGED <<groupVars, serviceVars, env, agentData, files, registry, keys, pc, returned>>

\* ------------------------------------------------------------ specification
Next ==
  \/ \E name \in Names, description \in Descriptions,
        capabilities \in Capabilities :
       RegisterId(name, description, capabilities)
  \/ SaveEncryptedData
  \/ GetBalance
  \/ FundESpaceAccount
  \/ CheckBalance
  \/ Transfer
  \/ PollBalance
  \/ VerifyBalance
  \/ Register
  \/ SendSignedTransaction
  \/ \E agent_id \in AgentIds, password \in Passwords :
       RecallId(agent_id, password)

Spec == Init /\ [][Next]_vars

\* ================================================================== claims
\* a registerId call has ended, by resolving or by rejecting
RegisterEnded == pc = "idle" /\ result.op = "registerId"

\* fundESpaceAccount has rejected
FundingFailed == fund.status \notin {"idle", "running", "ok"}

\* C1: once the record is persisted, registerId resolves with status
\* new_agent_registered whatever the balance reads, the funding call and
\* the chain registration did; none of their failures reaches the caller.
C1_NoFailurePropagates ==
  (RegisterEnded /\ obs.persisted)
    => (result.ok /\ result.status = "new_agent_registered")

\* funding succeeded, the registration was broadcast and failed, and the
\* call still resolved
C1_Witness ==
  /\ RegisterEnded /\ result.ok /\ obs.persisted
  /\ fund.status = "ok"
  /\ obs.submitted = 1 /\ obs.succeeded = 0

\* C2: when fundESpaceAccount rejects (missing configuration, failed
\* transfer or poll timeout) no registration is attempted in that call and
\* the result carries no tx_hash.
C2_FundingFailureSkipsRegistration ==
  FundingFailed
    => /\ obs.registerCalls = 0
       /\ obs.submitted = 0
       /\ RegisterEnded /\ result.ok /\ result.tx_hash = NoHash
       /\ call.agentId \notin registry

C2_Witness ==
  /\ fund.status = TimeoutMessage
  /\ RegisterEnded /\ result.tx_hash = NoHash

\* C3: the result carries a tx_hash exactly when the registration
\* transaction was broadcast and succeeded in this call; a failed broadcast
\* leaves no tx_hash; at most one registration is broadcast per call.
C3_TxHashIffRegistered ==
  /\ obs.submitted <= 1
  /\ obs.registerCalls <= 1
  /\ obs.succeeded <= obs.submitted
  /\ (RegisterEnded /\ result.ok)
       => /\ (result.tx_hash # NoHash) <=> (obs.succeeded = 1)
          /\ (result.tx_hash # NoHash)
               => result.tx_hash = TransactionHash(result.address)

\* registered on chain after a funding call, hash attached
C3_Witness ==
  /\ RegisterEnded /\ result.ok
  /\ result.tx_hash # NoHash
  /\ obs.fundCalls = 1 /\ fund.transfers = 1

\* C4: after registerId returned, whatever happened in its funding and
\* registration steps, recallId with the returned agent_id and the password
\* the record was encrypted with resolves with the same name, capabilities
\* and address.
C4_RecallAfterRegister ==
  (/\ pc = "idle" /\ result.op = "recallId"
   /\ result.agent_id \in DOMAIN returned
   /\ result.password = env.password)
    => /\ result.ok
       /\ result.name = returned[result.agent_id].result.name
       /\ result.capabilities = returned[result.agent_id].result.capabilities
       /\ result.address = returned[result.agent_id].result.address
       /\ result.address = result.agent_id

\* an identity whose funding failed and that is not on chain is recalled
C4_Witness ==
  /\ pc = "idle" /\ result.op = "recallId" /\ result.ok
  /\ result.agent_id \in DOMAIN returned
  /\ returned[result.agent_id].fundingFailed
  /\ returned[result.agent_id].result.tx_hash = NoHash
  /\ result.capabilities = <<"echo">>

\* C5: when the save fails registerId rejects, having read no balance,
\* called no funding and built no transaction; every such step of a call
\* comes after its save.
C5_PersistFirst ==
  /\ (RegisterEnded /\ ~obs.persisted)
       => /\ ~result.ok
          /\ obs.balanceReads = 0 /\ obs.fundCalls = 0
          /\ obs.registerCalls = 0 /\ obs.submitted = 0
          /\ fund = NoFund
          /\ call.agentId \notin DOMAIN files
  /\ (obs.balanceReads > 0 \/ obs.fundCalls > 0 \/ obs.registerCalls > 0
        \/ fund.status # "idle" \/ pc \in FundingPcs \cup {"register", "send"})
       => obs.persisted

C5_Witness ==
  /\ RegisterEnded /\ ~result.ok /\ ~obs.persisted
  /\ call.agentId \in DOMAIN agentData

\* C6: fundESpaceAccount resolves only if a balance read of that call
\* returned at least the requested amount; a transfer receipt alone never
\* makes it resolve.
C6_SuccessNeedsObservedBalance ==
  (fund.status = "ok") => (fund.sawSufficient /\ fund.reads >= 1)

\* resolved after a transfer and several polls
C6_Witness ==
  /\ fund.status = "ok" /\ fund.transfers = 1
  /\ fund.outcomeStatus = "success" /\ fund.pollReads >= 2

\* C7: when the transfer succeeded and no read ever returned the requested
\* amount, fundESpaceAccount rejects with the timeout error after exactly
\* maxAttempts (30) reads of the loop.
C7_TimeoutAfterExactlyMaxAttempts ==
  /\ fund.pollReads <= maxAttempts
  /\ (fund.status = TimeoutMessage)
       => /\ fund.pollReads = maxAttempts
          /\ fund.waits = maxAttempts
          /\ fund.transfers = 1
          /\ ~fund.sawSufficient
  /\ (/\ fund.outcomeStatus = "success"
      /\ fund.status \notin {"running", "getBalance failed"}
      /\ ~fund.sawSufficient)
       => fund.status = TimeoutMessage

C7_Witness ==
  /\ fund.status = TimeoutMessage
  /\ fund.outcomeStatus = "success"
  /\ fund.pollReads = 30

\* C8: the loop returns at its first read that sees the requested amount:
\* that read is the last one, it is among the first maxAttempts, and no
\* wait follows it.
C8_ReturnsAtFirstSufficientPoll ==
  /\ (fund.pollHit > 0)
       => /\ fund.status = "ok"
          /\ fund.pollReads = fund.pollHit
          /\ fund.waits = fund.pollHit - 1
          /\ fund.pollHit <= maxAttempts
          /\ pc \notin FundingPcs
  /\ (fund.status = "ok" /\ fund.pollReads > 0)
       => fund.pollHit = fund.pollReads

\* the last allowed read is the first one to see enough
C8_Witness ==
  /\ fund.status = "ok"
  /\ fund.pollHit = maxAttempts

\* the phases of the state machine of fundESpaceAccount, with the exits by
\* rejection
AllowedPaths ==
  { <<"Failed">>,
    <<"CheckBalance", "Done">>,
    <<"CheckBalance", "Failed">>,
    <<"CheckBalance", "Transfer", "Failed">>,
    <<"CheckBalance", "Transfer", "PollBalance", "Done">>,
    <<"CheckBalance", "Transfer", "PollBalance", "Failed">> }

IsPrefix(p, q) == Len(p) <= Len(q) /\ SubSeq(q, 1, Len(p)) = p

\* C9: fundESpaceAccount moves CheckBalance -> Done, or CheckBalance ->
\* Transfer -> PollBalance -> Done or Failed; a first read that is
\* sufficient ends in Done with no transfer sent; a transfer is sent at
\* most once, and only after an insufficient first read.
C9_FundingStateMachine ==
  /\ \E q \in AllowedPaths : IsPrefix(fund.path, q)
  /\ fund.transfers <= 1
  /\ (fund.firstRead = "sufficient")
       => /\ fund.status = "ok"
          /\ fund.transfers = 0
          /\ fund.path = <<"CheckBalance", "Done">>
  /\ (fund.transfers > 0 \/ pc = "fund_transfer" \/ fund.pollReads > 0)
       => fund.firstRead = "insufficient"

\* Done straight from CheckBalance
C9_Witness ==
  /\ fund.firstRead = "sufficient"
  /\ fund.path = <<"CheckBalance", "Done">>
  /\ fund.transfers = 0

FundInit ==
  /\ env \in [coreRpcUrl : BOOLEAN, corePk : BOOLEAN,
              fundAmountCfx : FundAmounts, password : Passwords]
  /\ keys = 1
  /\ \E name \in Names, capabilities \in Capabilities, iv \in IVs :
       LET privateKey == PrivateKeyOf(1)
           c == [agentId |-> WalletAddress(privateKey), name |-> name,
                 description |-> "", capabilities |-> capabilities,
                 privateKey |-> privateKey, site |-> "funded"]
       IN /\ call = c
          /\ agentData = Put(<< >>, c.agentId, AgentDataOf(c))
          /\ files = Put(<< >>, c.agentId,
                         encryptAgentData(AgentDataOf(c), env.password, iv))
  /\ registry = {}
  /\ pc = "fund"
  /\ fund = NoFund
  /\ obs = [NoObs EXCEPT !.persisted = TRUE, !.balanceReads = 1,
                         !.firstRead = "below"]
  /\ result = NoResult
  /\ returned = << >>
  /\ NoGroupActivity
  /\ NoServiceActivity

\* the steps of funding.ts:13-92
FundNext ==
  \/ FundESpaceAccount
  \/ CheckBalance
  \/ Transfer
  \/ PollBalance

\* Every await of fundESpaceAccount is on an RPC call or on a one-second
\* timer (funding.ts:41, 60, 66, 74, 83); when the awaited promise settles,
\* the event loop resumes the function.  With every RPC call returning, a
\* step that is possible is therefore taken.
FundSpec == FundInit /\ [][FundNext]_vars /\ WF_vars(FundNext)

\* C11: with every RPC call returning, fundESpaceAccount ends, resolved or
\* rejected, and its loop issues at most maxAttempts balance reads.
C11_FundingTerminates ==
  /\ [](fund.pollReads <= maxAttempts /\ fund.attempts <= maxAttempts)
  /\ <>(pc \notin FundingPcs /\ (fund.status = "ok" \/ FundingFailed))

\* the balance never rose: the call ended after maxAttempts reads and waits
C11_Witness ==
  /\ pc = "idle"
  /\ fund.status = TimeoutMessage
  /\ ~fund.sawSufficient
  /\ fund.waits = maxAttempts
  /\ fund.reads = maxAttempts + 1

\* ===================================================== group conversations
\* XMTPClient.addMembersToGroupByAddresses, addAdminsByAddresses and
\* removeAdminsByAddresses (xmtp-client.ts:343-536), one call at a time;
\* every await is a step, and other clients of the group may change it
\* between any two steps.
\* mutant: the map of clients is not consulted
HasNoClient(agentId) == FALSE

\* mutant: an agent of the in-memory table is taken to have a client
HasClientOrAgentData(agentId) ==
  agentId \in DOMAIN clients \/ agentId \in DOMAIN agentData

\* this.clients.has(agentId) and the tests of this.clients.get(agentId)
\* (xmtp-client.ts:12, 76-79, 260-262, 270-273, 348-351, 400-403, 473-476)
HasClient(agentId) == agentId \in DOMAIN clients

GroupKinds == {"addMembers", "addAdmins", "removeAdmins"}
AddressLists == UNION {[1..n -> Addresses] : n \in 0..MaxTargets}

AgentNotOnline == "Agent not registered or not online"
ClientNotFound == "XMTP client not found for agent"
GroupNotFound == "Group conversation not found for id"
CallerNotMember ==
  "Unable to resolve caller inbox; ensure the agent is a member of this group"
\* the common ending of the messages of xmtp-client.ts:371, 421, 494
PermissionDenied == "caller lacks permission"

\* the call rejects with an Error of this message
GroupThrow(r, message) ==
  req' = [r EXCEPT !.pc = "done", !.error = message]

\* agent.ts:248-279 and xmtp-client.ts:348-351, 400-403, 473-476
CallGroupOperation(kind, agentId, addresses) ==
  /\ req.pc = "idle"
  /\ used.ops < MaxOps
  /\ used' = [used EXCEPT !.ops = @ + 1]
  /\ LET r == [NoReq EXCEPT !.kind = kind, !.agentId = agentId,
                            !.addresses = addresses, !.groupAtStart = net,
                            !.changesAtStart = used.changes]
     IN IF agentId \notin DOMAIN agentData
          THEN GroupThrow(r, AgentNotOnline)
          ELSE IF ~HasClient(agentId)
            THEN GroupThrow(r, ClientNotFound)
            ELSE req' = [r EXCEPT !.pc = "sync"]
  /\ UNCHANGED <<net, clients, clientAddresses, idVars, serviceVars>>

\* xmtp-client.ts:354-361, 405-412, 478-485: synchronise, then look the
\* group up among the client's conversations; a rejection of sync is the
\* call's rejection
SyncConversation ==
  /\ req.pc = "sync"
  /\ LET a == req.agentId
         db == SyncedDb(clients[a], InboxOfAgent(a), net)
     IN \/ /\ clients' = [clients EXCEPT ![a] = db]
           /\ LET r == [req EXCEPT !.syncs = @ + 1]
              IN IF ~db.known
                   THEN GroupThrow(r, GroupNotFound)
                   ELSE req' = [r EXCEPT !.pc = "caller"]
        \/ /\ GroupThrow(req, "sync failed")
           /\ UNCHANGED clients
  /\ UNCHANGED <<net, clientAddresses, used, idVars, serviceVars>>

\* xmtp-client.ts:364-378, 415-427, 488-500 with getCallerInboxId
\* (331-341): listGroupMembers synchronises again and lists the members;
\* its rejection is swallowed into a null inbox id
ResolveCallerAndAuthorize ==
  /\ req.pc = "caller"
  /\ LET a == req.agentId
         db == SyncedDb(clients[a], InboxOfAgent(a), net)
         callerInboxId == CallerInbox(clientAddresses[a], Membership(db))
         r == [req EXCEPT !.callerInboxId = callerInboxId,
                          !.syncs = @ + 1, !.groupAtCheck = net]
         targets == UniqueLowerCased(req.addresses)
     IN \/ /\ clients' = [clients EXCEPT ![a] = db]
           /\ IF callerInboxId = NoInbox
                THEN GroupThrow(r, CallerNotMember) /\ UNCHANGED used
                ELSE IF ~Authorized(req.kind, db, callerInboxId)
                  THEN GroupThrow(r, PermissionDenied) /\ UNCHANGED used
                  ELSE /\ used' = [used EXCEPT !.authorizedBefore = @ \cup {a}]
                       /\ req' = [r EXCEPT
                                    !.authorized = TRUE,
                                    !.targets = targets,
                                    !.pc = IF targets = << >> THEN "done"
                                           ELSE IF req.kind = "addMembers"
                                             THEN "add" ELSE "list"]
        \/ /\ GroupThrow(req, CallerNotMember)
           /\ UNCHANGED <<clients, used>>
  /\ UNCHANGED <<net, clientAddresses, idVars, serviceVars>>

\* xmtp-client.ts:380-392: one request for all the identifiers; the network
\* adds the inboxes they resolve to, or the request rejects
AddMembersByIdentifiers ==
  /\ req.pc = "add"
  /\ LET a == req.agentId
         inboxes == {InboxOfIdentifier(t) : t \in Range(req.targets)}
         r == [req EXCEPT
                 !.requests = Append(@, [kind |-> "addMembers",
                                         identifiers |-> req.targets])]
     IN \/ /\ NoInbox \notin inboxes
           /\ net' = [net EXCEPT !.members = @ \cup inboxes]
           /\ clients' = [clients EXCEPT ![a].members = @ \cup inboxes]
           /\ req' = [r EXCEPT !.outcomes = Append(@, "ok"),
                               !.membersBefore = net.members,
                               !.membersAfter = net.members \cup inboxes,
                               !.added = req.targets, !.pc = "done"]
        \/ /\ GroupThrow([r EXCEPT !.outcomes = Append(@, "failed")],
                         "addMembersByIdentifiers failed")
           /\ UNCHANGED <<net, clients>>
  /\ UNCHANGED <<clientAddresses, used, idVars, serviceVars>>

\* xmtp-client.ts:430-438, 502-508
ListGroupMembers ==
  /\ req.pc = "list"
  /\ LET a == req.agentId
         db == SyncedDb(clients[a], InboxOfAgent(a), net)
     IN \/ /\ clients' = [clients EXCEPT ![a] = db]
           /\ req' = [req EXCEPT !.membership = Membership(db),
                                 !.groupAtList = net,
                                 !.syncs = @ + 1,
                                 !.pc = "loop"]
        \/ /\ GroupThrow(req, "listGroupMembers failed")
           /\ UNCHANGED clients
  /\ UNCHANGED <<net, clientAddresses, used, idVars, serviceVars>>

\* mutant: demoting an inbox takes it out of the super admins as well
RoleChangedInBothSets(kind, group, inbox) ==
  IF kind = "addAdmins"
    THEN [group EXCEPT !.admins = @ \cup {inbox}]
    ELSE [group EXCEPT !.admins = @ \ {inbox}, !.superAdmins = @ \ {inbox}]

\* conversation.addAdmin(inbox) and conversation.removeAdmin(inbox)
\* (xmtp-client.ts:456, 526) as the network applies them: the admin list
\* gains or loses the inbox
RoleChanged(kind, group, inbox) ==
  IF kind = "addAdmins"
    THEN [group EXCEPT !.admins = @ \cup {inbox}]
    ELSE [group EXCEPT !.admins = @ \ {inbox}]

\* the loop moves to its next target, or the call returns
NextTarget(r) ==
  [r EXCEPT !.idx = @ + 1,
            !.pc = IF r.idx = Len(r.targets) THEN "done" ELSE "loop"]

\* mutant: the request sits outside a try block
ChangeRoleUncaught ==
  /\ req.pc = "loop"
  /\ LET a == req.agentId
         addr == req.targets[req.idx]
         class == Classify(req.kind, addr, req.membership)
     IN CASE class = "notFound" ->
               /\ req' = NextTarget([req EXCEPT !.notFound = Append(@, addr)])
               /\ UNCHANGED <<net, clients>>
          [] class = "already" ->
               /\ req' = NextTarget([req EXCEPT !.already = Append(@, addr)])
               /\ UNCHANGED <<net, clients>>
          [] OTHER ->
               LET inbox == InboxOfTarget(addr, req.membership)
                   r == [req EXCEPT
                           !.requests = Append(@, [kind |-> req.kind,
                                                   inboxId |-> inbox])]
                   group == RoleChanged(req.kind, net, inbox)
               IN \/ /\ net' = group
                     /\ clients' = [clients EXCEPT ![a].admins = group.admins]
                     /\ req' = NextTarget(
                                 [r EXCEPT !.changed = Append(@, addr),
                                           !.outcomes = Append(@, "ok")])
                  \/ /\ GroupThrow([r EXCEPT !.outcomes = Append(@, "failed")],
                                   "role change failed")
                     /\ UNCHANGED <<net, clients>>
  /\ UNCHANGED <<clientAddresses, used, idVars, serviceVars>>

\* xmtp-client.ts:445-465, 515-535: one turn of the loop
ChangeRole ==
  /\ req.pc = "loop"
  /\ LET a == req.agentId
         addr == req.targets[req.idx]
         class == Classify(req.kind, addr, req.membership)
     IN CASE class = "notFound" ->
               /\ req' = NextTarget([req EXCEPT !.notFound = Append(@, addr)])
               /\ UNCHANGED <<net, clients>>
          [] class = "already" ->
               /\ req' = NextTarget([req EXCEPT !.already = Append(@, addr)])
               /\ UNCHANGED <<net, clients>>
          [] OTHER ->
               LET inbox == InboxOfTarget(addr, req.membership)
                   r == [req EXCEPT
                           !.requests = Append(@, [kind |-> req.kind,
                                                   inboxId |-> inbox])]
                   group == RoleChanged(req.kind, net, inbox)
               IN \/ /\ net' = group
                     /\ clients' = [clients EXCEPT ![a].admins = group.admins]
                     /\ req' = NextTarget(
                                 [r EXCEPT !.changed = Append(@, addr),
                                           !.outcomes = Append(@, "ok")])
                  \/ /\ req' = NextTarget(
                                 [r EXCEPT
                                    !.failed = Append(@, [address |-> addr,
                                                          error |-> "rejected"]),
                                    !.outcomes = Append(@, "failed")])
                     /\ UNCHANGED <<net, clients>>
  /\ UNCHANGED <<clientAddresses, used, idVars, serviceVars>>

\* server.ts:337-391: the route sends what the call returned, or its
\* error, and the locals of the call are gone
Respond ==
  /\ req.pc = "done"
  /\ req' = NoReq
  /\ UNCHANGED <<net, clients, clientAddresses, used, idVars, serviceVars>>

\* another client of the group (an admin on another device) changes it
NetworkChanges ==
  {"removeAdmin", "addSuperAdmin", "removeSuperAdmin", "removeMember"}

NetworkChange(change, inboxId) ==
  /\ used.changes < MaxNetChanges
  /\ inboxId \in net.members
  /\ net' = CASE change = "removeAdmin" ->
                   [net EXCEPT !.admins = @ \ {inboxId}]
              [] change = "addSuperAdmin" ->
                   [net EXCEPT !.superAdmins = @ \cup {inboxId}]
              [] change = "removeSuperAdmin" ->
                   [net EXCEPT !.superAdmins = @ \ {inboxId}]
              [] OTHER ->
                   [members |-> net.members \ {inboxId},
                    admins |-> net.admins \ {inboxId},
                    superAdmins |-> net.superAdmins \ {inboxId}]
  /\ net' # net
  /\ used' = [used EXCEPT !.changes = @ + 1]
  /\ UNCHANGED <<clients, clientAddresses, req, idVars, serviceVars>>

\* what registerId keeps of an agent of the group model (agent.ts:44-55)
GroupAgentData(agentId) ==
  [name |-> "agent", description |-> "", capabilities |-> << >>,
   address |-> agentId, xmtpAddress |-> agentId,
   privateKey |-> <<"0xkey", agentId>>, isOnline |-> FALSE]

\* no identity request is being served; the agents are registered, some of
\* them went online, and the group exists
GroupInit ==
  /\ env = [coreRpcUrl |-> FALSE, corePk |-> FALSE, fundAmountCfx |-> 0,
            password |-> "default_password"]
  /\ agentData = [agentId \in RegisteredAgents |-> GroupAgentData(agentId)]
  /\ files = [agentId \in RegisteredAgents |->
                encryptAgentData(GroupAgentData(agentId),
                                 "default_password", "iv1")]
  /\ registry = {}
  /\ keys = 0
  /\ pc = "idle"
  /\ call = NoCall
  /\ fund = NoFund
  /\ obs = NoObs
  /\ result = NoResult
  /\ returned = << >>
  /\ net \in {InitialGroup({}), InitialGroup({"ib"})}
  /\ clients = [agentId \in OnlineAgents |-> NoDb]
  /\ clientAddresses = [agentId \in OnlineAgents |-> toLowerCase(agentId)]
  /\ req = NoReq
  /\ used = NoUse
  /\ NoServiceActivity

GroupNext ==
  \/ \E kind \in GroupKinds, agentId \in GroupAgents,
        addresses \in AddressLists :
       CallGroupOperation(kind, agentId, addresses)
  \/ SyncConversation
  \/ ResolveCallerAndAuthorize
  \/ AddMembersByIdentifiers
  \/ ListGroupMembers
  \/ ChangeRole
  \/ Respond
  \/ \E change \in NetworkChanges, inboxId \in {"ia", "ib"} :
       NetworkChange(change, inboxId)

GroupSpec == GroupInit /\ [][GroupNext]_vars

\* ---------------------------------------------------- claims on the groups
GroupEnded == req.kind # "none" /\ req.pc = "done"
RoleKinds == {"addAdmins", "removeAdmins"}

\* C12: addMembers sends a membership add only if the caller's resolved
\* inbox is in the admin set or the super-admin set of the group at the
\* permission test; a member caller in neither set is refused with the
\* permission error, no request is sent and nothing is added to the group.
C12_AddNeedsAdminOrSuperAdmin ==
  (req.kind = "addMembers") =>
    /\ (req.requests # << >>) =>
         /\ req.callerInboxId # NoInbox
         /\ req.callerInboxId \in
              req.groupAtCheck.admins \cup req.groupAtCheck.superAdmins
    /\ (/\ req.pc = "done"
        /\ req.callerInboxId # NoInbox
        /\ req.callerInboxId \notin
             req.groupAtCheck.admins \cup req.groupAtCheck.superAdmins)
         => /\ req.error = PermissionDenied
            /\ req.requests = << >>
            /\ net.members \subseteq req.groupAtStart.members

\* an admin that is no super admin added a member
C12_Witness ==
  /\ req.kind = "addMembers"
  /\ req.callerInboxId = "ib"
  /\ "ib" \in req.groupAtCheck.admins
  /\ "ib" \notin req.groupAtCheck.superAdmins
  /\ req.outcomes = <<"ok">>
  /\ "id" \in net.members

\* C13: addAdmins and removeAdmins send a role change only if the caller's
\* resolved inbox is in the super-admin set of the group at the permission
\* test; a caller that is an admin only is refused with the permission
\* error and no role is changed.
C13_RoleChangeNeedsSuperAdmin ==
  (req.kind \in RoleKinds) =>
    /\ (req.requests # << >>) =>
         /\ req.callerInboxId # NoInbox
         /\ req.callerInboxId \in req.groupAtCheck.superAdmins
    /\ (/\ req.pc = "done"
        /\ req.callerInboxId # NoInbox
        /\ req.callerInboxId \notin req.groupAtCheck.superAdmins)
         => /\ req.error = PermissionDenied
            /\ req.requests = << >>
            /\ req.changed = << >>

\* an admin that is no super admin asked for a promotion and was refused
C13_Witness ==
  /\ req.kind = "addAdmins"
  /\ req.pc = "done"
  /\ req.callerInboxId = "ib"
  /\ "ib" \in req.groupAtCheck.admins
  /\ req.targets = << >>
  /\ req.addresses = <<"0xdd">>
  /\ req.error = PermissionDenied

\* the agent's wallet address is among the identifiers of a member
CallerMatchesMember(agentId, group) ==
  \E i \in group.members :
    toLowerCase(agentId) \in Range(AccountIdentifiers[i])

\* C14 as stated: a caller that has a client and whose wallet address matches no member of the
\* group, and whose synchronisation did not reject, is refused with the
\* caller-not-member error before any mutation request is sent.
C14_NonMemberGetsCallerNotMember ==
  (/\ GroupEnded
   /\ req.agentId \in DOMAIN clients
   /\ ~CallerMatchesMember(req.agentId, req.groupAtStart)
   /\ req.error # "sync failed")
    => /\ req.error = CallerNotMember
       /\ req.requests = << >>

\* C14, amended: a caller that has a client and whose wallet address matches no member of the
\* group never passes the permission test and no mutation request is sent;
\* the call rejects with the caller-not-member error when the group is
\* among the conversations of the caller's client, and with the
\* group-not-found error when it is not (the caller never was a member).
C14_NonMemberIsRefused ==
  (/\ req.kind # "none"
   /\ req.agentId \in DOMAIN clients
   /\ ~CallerMatchesMember(req.agentId, req.groupAtStart))
    => /\ ~req.authorized
       /\ req.requests = << >>
       /\ (req.pc = "done" /\ req.error # "sync failed")
            => IF clients[req.agentId].known
                 THEN req.error = CallerNotMember
                 ELSE req.error = GroupNotFound

\* a member that was removed from the group calls and is refused after both
\* synchronisations
C14_Witness ==
  /\ GroupEnded
  /\ req.agentId = "0xBb"
  /\ "ib" \notin req.groupAtStart.members
  /\ req.syncs = 2
  /\ req.error = CallerNotMember

\* C15: the permission test of a call rests on what that call synchronised:
\* a call passes it only after its own two synchronisations, and a caller
\* that lacks the required role when the call begins, with the group left
\* alone by others during the call, is refused and sends no request,
\* whatever an earlier call of the same agent was allowed.
C15_PermissionIsReevaluated ==
  /\ req.authorized => req.syncs >= 2
  /\ (/\ req.kind # "none"
      /\ used.changes = req.changesAtStart
      /\ ~Authorized(req.kind, req.groupAtStart, InboxOfAgent(req.agentId)))
       => /\ ~req.authorized
          /\ req.requests = << >>

\* the creator was authorized by an earlier call, lost the super-admin role
\* before this call, and is refused
C15_Witness ==
  /\ GroupEnded
  /\ req.agentId = "0xAa"
  /\ req.agentId \in used.authorizedBefore
  /\ req.changesAtStart = 1
  /\ "ia" \notin req.groupAtStart.superAdmins
  /\ req.error = PermissionDenied

\* a role operation has returned its buckets
RoleOperationReturned ==
  /\ req.kind \in RoleKinds
  /\ req.pc = "done"
  /\ req.authorized
  /\ req.error = "none"

\* the addresses reported as failed
FailedAddresses == [i \in 1..Len(req.failed) |-> req.failed[i].address]

\* the buckets of the result, one after the other
Buckets == req.changed \o req.already \o req.notFound \o FailedAddresses

\* number of places at which a sequence holds a value
Occurrences(seq, x) == Cardinality({i \in 1..Len(seq) : seq[i] = x})

\* C16: when an authorized addAdmins or removeAdmins call returns, every
\* address it was given appears, lower-cased, in exactly one of the buckets
\* promoted/demoted, alreadyAdmin/notAdmin, notFound and failed, once; the
\* buckets hold nothing else.
C16_EveryTargetInOneBucket ==
  RoleOperationReturned =>
    /\ \A i \in 1..Len(req.addresses) :
         Occurrences(Buckets, toLowerCase(req.addresses[i])) = 1
    /\ Range(Buckets) = {toLowerCase(req.addresses[i]) :
                           i \in 1..Len(req.addresses)}

\* two targets in two different buckets
C16_Witness ==
  /\ RoleOperationReturned
  /\ req.kind = "addAdmins"
  /\ req.addresses = <<"0xBb", "0xdd">>
  /\ req.changed = <<"0xbb">>
  /\ req.notFound = <<"0xdd">>

\* the members of the group, as listed at xmtp-client.ts:430, 502, whose
\* address is the target
MembersWithAddress(addr) ==
  {i \in req.groupAtList.members : AddressOfMember(i) = addr}

\* the target's member already has the role the call would give it, or
\* lacks the role the call would take from it
InTargetRole(addr) ==
  \E i \in MembersWithAddress(addr) :
    IF req.kind = "addAdmins"
      THEN i \in req.groupAtList.admins
      ELSE i \notin req.groupAtList.admins

\* a role-change request was sent for the target's member
RequestedFor(addr) ==
  \E k \in 1..Len(req.requests) :
    req.requests[k].inboxId \in MembersWithAddress(addr)

\* C17: in a returned addAdmins or removeAdmins call, a target with no
\* member of that address in the listed membership is in notFound; a target
\* whose member is already an admin (addAdmins) or is not an admin
\* (removeAdmins) is in alreadyAdmin/notAdmin; neither is in
\* promoted/demoted, and no role-change request is sent for them.
C17_NoOpTargetsAreReported ==
  RoleOperationReturned =>
    \A addr \in Range(req.targets) :
      /\ (MembersWithAddress(addr) = {})
           => /\ Occurrences(req.notFound, addr) = 1
              /\ addr \notin Range(req.changed)
      /\ (MembersWithAddress(addr) # {} /\ InTargetRole(addr))
           => /\ Occurrences(req.already, addr) = 1
              /\ addr \notin Range(req.changed)
              /\ ~RequestedFor(addr)

\* a promotion of an admin and of an address that is no member's: both are
\* reported, nothing is sent
C17_Witness ==
  /\ RoleOperationReturned
  /\ req.kind = "addAdmins"
  /\ req.already = <<"0xbb">>
  /\ req.notFound = <<"0xdd">>
  /\ "ib" \in req.groupAtList.admins
  /\ req.requests = << >>

\* some role-change request of the call was rejected by the network
SomeRequestFailed ==
  /\ req.kind \in RoleKinds
  /\ \E k \in 1..Len(req.outcomes) : req.outcomes[k] = "failed"

\* position in targets of the first target whose request was rejected
FirstFailure ==
  CHOOSE i \in 1..Len(req.targets) :
    /\ req.targets[i] = req.failed[1].address
    /\ \A j \in 1..(i - 1) : req.targets[j] # req.failed[1].address

\* the bucket the listed membership gives a target, had its request, if
\* any, the outcome the network gave it
BucketOf(addr) ==
  IF MembersWithAddress(addr) = {} THEN req.notFound
  ELSE IF InTargetRole(addr)
            \/ (req.kind = "addAdmins"
                  /\ \E i \in MembersWithAddress(addr) :
                       i \in req.groupAtList.superAdmins)
    THEN req.already
    ELSE IF addr \in Range(req.changed) THEN req.changed
    ELSE FailedAddresses

\* C18: a rejected role-change request does not end the call: the call
\* does not reject, the target is reported in failed with the reason, and
\* when the call returns every later target has been classified by the
\* listed membership as it would have been without the failure.
C18_FailureDoesNotAbortBatch ==
  SomeRequestFailed =>
    /\ req.error = "none"
    /\ Len(req.failed) >= 1
    /\ \A k \in 1..Len(req.failed) : req.failed[k].error # ""
    /\ (req.pc = "done") =>
         /\ Len(Buckets) = Len(req.targets)
         /\ \A i \in 1..Len(req.targets) :
              i > FirstFailure =>
                Occurrences(BucketOf(req.targets[i]), req.targets[i]) = 1

\* the first request was rejected, the second target was still reported
C18_Witness ==
  /\ SomeRequestFailed
  /\ req.pc = "done"
  /\ req.targets = <<"0xbb", "0xdd">>
  /\ FailedAddresses = <<"0xbb">>
  /\ req.notFound = <<"0xdd">>

Identities ==
  {AgentDataOf([agentId |-> WalletAddress(privateKey), name |-> name,
                description |-> description, capabilities |-> capabilities,
                privateKey |-> privateKey]) :
     name \in Names, description \in {"", "an agent"},
     capabilities \in Capabilities,
     privateKey \in {PrivateKeyOf(1), PrivateKeyOf(2)}}

\* an identity in memory, nothing on disk yet
KeyStoreInit ==
  /\ env \in [coreRpcUrl : {FALSE}, corePk : {FALSE}, fundAmountCfx : {0},
              password : Passwords]
  /\ \E data \in Identities : agentData = Put(<< >>, data.address, data)
  /\ files = << >>
  /\ registry = {}
  /\ keys = 1
  /\ pc = "encrypt"
  /\ call = NoCall
  /\ fund = NoFund
  /\ obs = NoObs
  /\ result = NoResult
  /\ returned = << >>
  /\ NoGroupActivity
  /\ NoServiceActivity

\* agent.ts:58-59
Encrypt ==
  /\ pc = "encrypt"
  /\ \E agentId \in DOMAIN agentData, iv \in IVs :
       files' = Put(files, agentId,
                    encryptAgentData(agentData[agentId], env.password, iv))
  /\ pc' = "decrypt"
  /\ UNCHANGED <<groupVars, serviceVars, env, agentData, registry, keys, call, fund, obs,
                 result, returned>>

\* agent.ts:146-147, 163-164
Decrypt(password) ==
  /\ pc = "decrypt"
  /\ \E agentId \in DOMAIN files :
       result' = [op |-> "decrypt", ok |-> TRUE, agent_id |-> agentId,
                  password |-> password,
                  existing |-> decryptAgentData(files[agentId], password)]
  /\ pc' = "decrypted"
  /\ UNCHANGED <<groupVars, serviceVars, env, agentData, files, registry, keys, call, fund,
                 obs, returned>>

KeyStoreNext ==
  \/ Encrypt
  \/ \E password \in Passwords : Decrypt(password)

KeyStoreSpec == KeyStoreInit /\ [][KeyStoreNext]_vars

Threads == 1..MaxThreads

\* agents whose record is on disk, and the password it was saved under
SessionPasswords == ("0xAa" :> "default_password") @@ ("0xBb" :> "s3cret")
\* agent ids a caller may present; "0x99" has no record
SessionAgents == DOMAIN SessionPasswords \cup {"0x99"}

IdleThread ==
  [pc |-> "idle", agentId |-> "", password |-> "",
   agentData |-> GroupAgentData(""), client |-> 0, result |-> "none",
   failure |-> "none", hadClient |-> FALSE, heldAtCheck |-> 0, made |-> 0]

CreateFailed == "Failed to create XMTP client"

\* mutant: no catch block
GoOnlineRethrow(t, error) ==
  [t EXCEPT !.pc = "done", !.result = "threw", !.failure = error]

\* the catch block of agent.ts:173-176
GoOnlineCatch(t, error) ==
  [t EXCEPT !.pc = "done", !.result = "false", !.failure = error]

\* what a goOnline step leaves alone
sessionRest ==
  <<env, registry, keys, pc, call, fund, obs, result, returned, net, req,
    used, dms, msg, tx, scan, espace, funders, groupMessages>>

\* server.ts:92-102 and agent.ts:160-163, up to the await of readFile
GoOnline(i, agentId, password) ==
  /\ threads[i].pc = "idle"
  /\ created.calls < MaxCalls
  /\ created' = [created EXCEPT !.calls = @ + 1]
  /\ threads' = [threads EXCEPT ![i] =
                   [IdleThread EXCEPT !.pc = "load", !.agentId = agentId,
                                      !.password = password]]
  /\ UNCHANGED <<files, agentData, clients, clientAddresses, held,
                 sessionRest>>

\* agent.ts:163-167 and xmtp-client.ts:12-55: readFile settles, the record
\* is decrypted and getOrCreateClient runs up to its first await
LoadAndDecrypt(i) ==
  /\ threads[i].pc = "load"
  /\ LET t == threads[i]
         a == t.agentId
     IN IF a \notin DOMAIN files
          THEN /\ threads' = [threads EXCEPT ![i] = GoOnlineCatch(t, "ENOENT")]
               /\ UNCHANGED created
          ELSE LET existing == decryptAgentData(files[a], t.password)
               IN IF ~existing.ok
                    THEN /\ threads' = [threads EXCEPT ![i] =
                                          GoOnlineCatch(t, existing.data)]
                         /\ UNCHANGED created
                    ELSE IF HasClient(a)
                      THEN /\ threads' = [threads EXCEPT ![i] =
                                 [t EXCEPT !.agentData = existing.data,
                                           !.hadClient = TRUE,
                                           !.heldAtCheck = held[a],
                                           !.client = held[a],
                                           !.pc = "store"]]
                           /\ UNCHANGED created
                      ELSE /\ threads' = [threads EXCEPT ![i] =
                                 [t EXCEPT !.agentData = existing.data,
                                           !.pc = "create"]]
                           /\ created' =
                                [created EXCEPT !.overlapped[a] =
                                   @ \/ \E j \in Threads \ {i} :
                                          /\ threads[j].pc = "create"
                                          /\ threads[j].agentId = a]
  /\ UNCHANGED <<files, agentData, clients, clientAddresses, held,
                 sessionRest>>

\* xmtp-client.ts:55-67: Client.create settles
ClientCreate(i) ==
  /\ threads[i].pc = "create"
  /\ LET t == threads[i]
         a == t.agentId
         client == created.clients[a] + 1
     IN \/ /\ created' = [created EXCEPT !.clients[a] = client]
           /\ clients' = Put(clients, a, NoDb)
           /\ clientAddresses' =
                Put(clientAddresses, a, toLowerCase(t.agentData.privateKey[2]))
           /\ held' = Put(held, a, client)
           /\ threads' = [threads EXCEPT ![i] =
                            [t EXCEPT !.client = client, !.made = @ + 1,
                                      !.pc = "store"]]
        \/ /\ threads' = [threads EXCEPT ![i] = GoOnlineCatch(t, CreateFailed)]
           /\ UNCHANGED <<created, clients, clientAddresses, held>>
  /\ UNCHANGED <<files, agentData, sessionRest>>

\* agent.ts:170-172
StoreAgentData(i) ==
  /\ threads[i].pc = "store"
  /\ LET t == threads[i]
     IN /\ agentData' = Put(agentData, t.agentId, t.agentData)
        /\ threads' = [threads EXCEPT ![i] =
                         [t EXCEPT !.pc = "done", !.result = "true"]]
  /\ UNCHANGED <<files, created, clients, clientAddresses, held, sessionRest>>

\* server.ts:104-113: the response is sent
GoOnlineRespond(i) ==
  /\ threads[i].pc = "done"
  /\ threads' = [threads EXCEPT ![i] = IdleThread]
  /\ UNCHANGED <<files, agentData, created, clients, clientAddresses, held,
                 sessionRest>>

\* the server after a restart: the records are on disk, nobody is online
SessionInit ==
  /\ env = [coreRpcUrl |-> FALSE, corePk |-> FALSE, fundAmountCfx |-> 0,
            password |-> "default_password"]
  /\ agentData = << >>
  /\ files = [agentId \in DOMAIN SessionPasswords |->
                encryptAgentData(GroupAgentData(agentId),
                                 SessionPasswords[agentId], "iv1")]
  /\ registry = {}
  /\ keys = 0
  /\ pc = "idle"
  /\ call = NoCall
  /\ fund = NoFund
  /\ obs = NoObs
  /\ result = NoResult
  /\ returned = << >>
  /\ NoGroupActivity
  /\ threads = [i \in Threads |-> IdleThread]
  /\ created = [calls |-> 0,
                clients |-> [a \in SessionAgents |-> 0],
                overlapped |-> [a \in SessionAgents |-> FALSE]]
  /\ held = << >>
  /\ dms = << >>
  /\ msg = NoMsg
  /\ tx = NoTx
  /\ scan = NoScan
  /\ espace = NoESpace
  /\ funders = << >>
  /\ groupMessages = << >>

SessionNext ==
  \/ \E i \in Threads, agentId \in SessionAgents, password \in Passwords :
       GoOnline(i, agentId, password)
  \/ \E i \in Threads : LoadAndDecrypt(i)
  \/ \E i \in Threads : ClientCreate(i)
  \/ \E i \in Threads : StoreAgentData(i)
  \/ \E i \in Threads : GoOnlineRespond(i)
  \/ \E agent_id \in SessionAgents, password \in Passwords :
       RecallId(agent_id, password)

SessionSpec == SessionInit /\ [][SessionNext]_vars

\* ------------------------------------------------------ claims on sessions
\* the password given is not the one the agent's record was saved under
WrongPassword(agentId, password) ==
  agentId \in DOMAIN SessionPasswords /\ password # SessionPasswords[agentId]

C22_GoOnlineNeverRaises ==
  \A i \in Threads :
    LET t == threads[i]
    IN t.pc = "done"
         => /\ t.result \in {"true", "false"}
            /\ t.failure # "none" => t.result = "false"
            /\ t.agentId \notin DOMAIN files => t.result = "false"
            /\ WrongPassword(t.agentId, t.password) => t.result = "false"
            /\ t.result = "true"
                 => /\ HasClient(t.agentId)
                    /\ t.agentId \in DOMAIN held
                    /\ t.agentId \in DOMAIN agentData

\* every kind of failure has made a call resolve with false, one of them
\* being returned right now, and an agent is online
C22_Witness ==
  /\ \E i \in Threads :
       /\ threads[i].pc = "done"
       /\ threads[i].failure = CreateFailed
       /\ threads[i].result = "false"
  /\ \E j \in Threads :
       /\ threads[j].pc = "done"
       /\ threads[j].result = "true"
       /\ HasClient(threads[j].agentId)

\* C23: a call that finds a client for its agent id returns that client and
\* creates none, so calls of which no two were creating a client for the
\* same agent at the same time leave at most one client created for it.
C23_GetOrCreateIsIdempotent ==
  /\ \A i \in Threads :
       threads[i].hadClient
         => /\ threads[i].made = 0
            /\ threads[i].client = threads[i].heldAtCheck
  /\ \A a \in SessionAgents :
       ~created.overlapped[a] => created.clients[a] <= 1

\* the third call for an agent returns the client the first one created
C23_Witness ==
  /\ created.calls = 3
  /\ ~created.overlapped["0xAa"]
  /\ created.clients["0xAa"] = 1
  /\ \E i \in Threads :
       /\ threads[i].pc = "done"
       /\ threads[i].agentId = "0xAa"
       /\ threads[i].hadClient
       /\ threads[i].client = 1
       /\ threads[i].result = "true"

\* C24: over any interleaving of goOnline calls for one agent id, calls
\* that overlap while Client.create is awaited included, at most one client
\* is created for the agent and every call returns that same client.
C24_OneClientPerAgent ==
  /\ \A a \in SessionAgents : created.clients[a] <= 1
  /\ \A i, j \in Threads :
       (/\ threads[i].agentId = threads[j].agentId
        /\ threads[i].client # 0
        /\ threads[j].client # 0)
         => threads[i].client = threads[j].client

\* ------------------------------------------------------- direct messages
\* XMTPClient.sendMessage (xmtp-client.ts:70-139) and getMessages
\* (173-228) behind Agent.sendMessage and checkNewMessages
\* (agent.ts:188-214), one call at a time; every await is a step and peers
\* may write to the agent's conversations between any two steps.
Recipients == {"0xBb", "0xdd", "0x00"}
Limits == 1..MaxLimit
Peers == {"0xbb", "0xdd"}

\* options.contentType as the route passes it on (server.ts:150-153)
ContentTypes == {"undefined", "text", "reply", "attachment"}

\* mutant: a missing content type is taken for a reply
ContentTypeOrReply(contentType) ==
  IF contentType = "undefined" THEN "reply" ELSE contentType

\* options?.contentType ?? 'text' (xmtp-client.ts:102, 288)
ContentTypeOrText(contentType) ==
  IF contentType = "undefined" THEN "text" ELSE contentType

\* the content type conversation.send is given (xmtp-client.ts:115-128,
\* 304-317); a send without one uses the text encoding
EncodingOf(ct) ==
  CASE ct = "reply" -> "ContentTypeReply"
    [] ct = "remote_attachment" -> "ContentTypeRemoteAttachment"
    [] ct = "attachment" -> "ContentTypeAttachment"
    [] OTHER -> "ContentTypeText"

\* client.canMessage (xmtp-client.ts:92): the identifier has an inbox
CanMessage(identifier) == InboxOfIdentifier(identifier) # NoInbox

RECURSIVE Total(_)
\* messages in all the conversations
Total(d) ==
  IF DOMAIN d = {} THEN 0
  ELSE LET p == CHOOSE q \in DOMAIN d : TRUE
       IN d[p] + Total([q \in DOMAIN d \ {p} |-> d[q]])

\* messages in the agents' conversations
Stored == Total(dms) + Len(groupMessages)

\* conversations.list(): the conversations in a fixed order
RECURSIVE ListOf(_)
ListOf(set) ==
  IF set = {} THEN << >>
  ELSE LET p == CHOOSE q \in set : TRUE
       IN <<p>> \o ListOf(set \ {p})

SendFailed == "Failed to send message"
GetFailed == "Failed to get messages"
Unreachable == "Recipient cannot receive XMTP messages"
ReplyToRequired ==
  "replyTo (reference message id) is required for reply content type"

\* the call rejects with an Error of this message, made from this cause
MsgThrow(m, message, cause) ==
  msg' = [m EXCEPT !.pc = "done", !.error = message, !.cause = cause]

\* what a step of these calls leaves alone
msgRest ==
  <<idVars, net, clients, clientAddresses, req, used, threads, created,
    held, tx, scan, espace, funders>>

\* agent.ts:194-198 and xmtp-client.ts:76-92, up to the await of canMessage
SendMessage(agentId, recipientAddress, contentType, replyTo) ==
  /\ msg.pc = "idle"
  /\ Stored < MaxMessages
  /\ LET m == [NoMsg EXCEPT !.op = "sendMessage", !.agentId = agentId,
                            !.recipient = recipientAddress,
                            !.contentType = contentType,
                            !.replyTo = replyTo]
     IN IF agentId \notin DOMAIN agentData
          THEN MsgThrow(m, AgentNotOnline, "none")
          ELSE IF ~HasClient(agentId)
            THEN MsgThrow(m, ClientNotFound, "none")
            ELSE msg' = [m EXCEPT !.pc = "canMessage",
                                  !.requests = <<"canMessage">>]
  /\ UNCHANGED <<dms, groupMessages, msgRest>>

\* mutant: the answer of canMessage is not looked at
CheckCanMessageIgnored ==
  /\ msg.pc = "canMessage"
  /\ \/ msg' = [msg EXCEPT !.pc = "newDm",
                           !.requests = Append(@, "newDmWithIdentifier")]
     \/ MsgThrow(msg, SendFailed, "canMessage failed")
  /\ UNCHANGED <<dms, groupMessages, msgRest>>

\* xmtp-client.ts:92-98: canMessage settles
CheckCanMessage ==
  /\ msg.pc = "canMessage"
  /\ \/ IF CanMessage(toLowerCase(msg.recipient))
          THEN msg' = [msg EXCEPT !.pc = "newDm",
                                  !.requests = Append(@, "newDmWithIdentifier")]
          ELSE MsgThrow(msg, SendFailed, Unreachable)
     \/ MsgThrow(msg, SendFailed, "canMessage failed")
  /\ UNCHANGED <<dms, groupMessages, msgRest>>

\* xmtp-client.ts:98-128: newDmWithIdentifier settles; the conversation is
\* created unless it exists
NewDmWithIdentifier ==
  /\ msg.pc = "newDm"
  /\ LET peer == toLowerCase(msg.recipient)
     IN \/ /\ dms' = IF peer \in DOMAIN dms THEN dms ELSE Put(dms, peer, 0)
           /\ IF ContentTypeOrText(msg.contentType) = "reply" /\ ~msg.replyTo
                THEN MsgThrow(msg, SendFailed, ReplyToRequired)
                ELSE msg' = [msg EXCEPT !.pc = "send",
                                        !.requests = Append(@, "send")]
        \/ /\ MsgThrow(msg, SendFailed, "newDmWithIdentifier failed")
           /\ UNCHANGED dms
  /\ UNCHANGED <<groupMessages, msgRest>>

\* xmtp-client.ts:115-138: conversation.send settles
ConversationSend ==
  /\ msg.pc = "send"
  /\ LET peer == toLowerCase(msg.recipient)
     IN \/ /\ Stored < MaxMessages
           /\ dms' = [dms EXCEPT ![peer] = @ + 1]
           /\ msg' = [msg EXCEPT
                        !.pc = "done", !.messages = 1,
                        !.encoding =
                           EncodingOf(ContentTypeOrText(msg.contentType))]
        \/ /\ MsgThrow(msg, SendFailed, "send failed")
           /\ UNCHANGED dms
  /\ UNCHANGED <<groupMessages, msgRest>>

\* what a step of sendGroupMessage leaves alone
groupSendRest ==
  <<idVars, net, clientAddresses, req, used, threads, created, held, dms,
    tx, scan, espace, funders>>

\* agent.ts:242-245 and xmtp-client.ts:270-278, up to the await of sync
SendGroupMessage(agentId, contentType, replyTo) ==
  /\ msg.pc = "idle"
  /\ Stored < MaxMessages
  /\ LET m == [NoMsg EXCEPT !.op = "sendGroupMessage", !.agentId = agentId,
                            !.contentType = contentType,
                            !.replyTo = replyTo]
     IN IF agentId \notin DOMAIN agentData
          THEN MsgThrow(m, AgentNotOnline, "none")
          ELSE IF ~HasClient(agentId)
            THEN MsgThrow(m, ClientNotFound, "none")
            ELSE msg' = [m EXCEPT !.pc = "groupSync",
                                  !.requests = <<"sync">>]
  /\ UNCHANGED <<clients, groupMessages, groupSendRest>>

\* xmtp-client.ts:278-295: the synchronisation settles, the group is looked
\* up among the client's conversations, and a reply without replyTo is
\* refused
FindGroupConversation ==
  /\ msg.pc = "groupSync"
  /\ LET a == msg.agentId
         db == SyncedDb(clients[a], InboxOfAgent(a), net)
     IN \/ /\ clients' = [clients EXCEPT ![a] = db]
           /\ IF ~db.known
                THEN MsgThrow(msg, "Failed to send group message",
                              GroupNotFound)
                ELSE IF ContentTypeOrText(msg.contentType) = "reply"
                        /\ ~msg.replyTo
                  THEN MsgThrow(msg, "Failed to send group message",
                                ReplyToRequired)
                  ELSE msg' = [msg EXCEPT !.pc = "groupSend",
                                          !.requests = Append(@, "send")]
        \/ /\ MsgThrow(msg, "Failed to send group message", "sync failed")
           /\ UNCHANGED clients
  /\ UNCHANGED <<groupMessages, groupSendRest>>

\* xmtp-client.ts:304-327: conversation.send settles
GroupConversationSend ==
  /\ msg.pc = "groupSend"
  /\ LET encoding == EncodingOf(ContentTypeOrText(msg.contentType))
     IN \/ /\ Stored < MaxMessages
           /\ groupMessages' =
                Append(groupMessages,
                       [sender |-> msg.agentId,
                        contentType |-> msg.contentType,
                        encoding |-> encoding])
           /\ msg' = [msg EXCEPT !.pc = "done", !.messages = 1,
                                 !.encoding = encoding]
        \/ /\ MsgThrow(msg, "Failed to send group message", "send failed")
           /\ UNCHANGED groupMessages
  /\ UNCHANGED <<clients, groupSendRest>>

\* a peer writes to the agent: its conversation appears or grows
PeerSends(peer) ==
  /\ Stored < MaxMessages
  /\ dms' = IF peer \in DOMAIN dms THEN [dms EXCEPT ![peer] = @ + 1]
            ELSE Put(dms, peer, 1)
  /\ UNCHANGED <<msg, groupMessages, msgRest>>

\* agent.ts:209-213 and xmtp-client.ts:181-188, up to the await of sync
GetMessages(agentId, conversationId, limit) ==
  /\ msg.pc = "idle"
  /\ LET m == [NoMsg EXCEPT !.op = "getMessages", !.agentId = agentId,
                            !.conversationId = conversationId,
                            !.limit = limit]
     IN IF agentId \notin DOMAIN agentData
          THEN MsgThrow(m, AgentNotOnline, "none")
          ELSE IF ~HasClient(agentId)
            THEN MsgThrow(m, ClientNotFound, "none")
            ELSE msg' = [m EXCEPT !.pc = "list"]
  /\ UNCHANGED <<dms, groupMessages, msgRest>>

\* Math.ceil(limit / Math.max(conversations.length, 1)) (xmtp-client.ts:210)
Share(limit, n) ==
  LET d == IF n > 1 THEN n ELSE 1
  IN (limit + d - 1) \div d

\* xmtp-client.ts:188-205: sync and list settle
ListConversations ==
  /\ msg.pc = "list"
  /\ \/ LET conversations == ListOf(DOMAIN dms)
            m == [msg EXCEPT !.conversations = conversations]
        IN IF msg.conversationId # ""
             THEN IF msg.conversationId \in DOMAIN dms
                    THEN msg' = [m EXCEPT !.pc = "fetchOne"]
                    ELSE msg' = [m EXCEPT !.pc = "done"]
             ELSE msg' = [m EXCEPT
                            !.perConv = Share(msg.limit, Len(conversations)),
                            !.pc = IF conversations = << >> THEN "done"
                                   ELSE "fetch"]
     \/ MsgThrow(msg, GetFailed, "list failed")
  /\ UNCHANGED <<dms, groupMessages, msgRest>>

\* conversation.messages({limit}): the messages it returns
Messages(count, limit) == IF count < limit THEN count ELSE limit

\* xmtp-client.ts:199-205: the messages of the conversation asked for
FetchConversation ==
  /\ msg.pc = "fetchOne"
  /\ \/ msg' = [msg EXCEPT
                  !.messages = Messages(dms[msg.conversationId], msg.limit),
                  !.pc = "done"]
     \/ MsgThrow(msg, GetFailed, "messages failed")
  /\ UNCHANGED <<dms, groupMessages, msgRest>>

\* xmtp-client.ts:208-213: one turn of the loop over the conversations
FetchNextConversation ==
  /\ msg.pc = "fetch"
  /\ \/ LET peer == msg.conversations[msg.idx]
        IN msg' = [msg EXCEPT
                     !.messages = @ + Messages(dms[peer], msg.perConv),
                     !.idx = @ + 1,
                     !.pc = IF msg.idx = Len(msg.conversations)
                              THEN "done" ELSE "fetch"]
     \/ MsgThrow(msg, GetFailed, "messages failed")
  /\ UNCHANGED <<dms, groupMessages, msgRest>>

\* server.ts:140-197: the response is sent
MsgRespond ==
  /\ msg.pc = "done"
  /\ msg' = NoMsg
  /\ UNCHANGED <<dms, groupMessages, msgRest>>

\* "0xAa" is online and in the group, "0xEe" is online and not in the
\* group, "0xFf" is registered only, "0x99" is unknown
MsgInit ==
  /\ env = [coreRpcUrl |-> FALSE, corePk |-> FALSE, fundAmountCfx |-> 0,
            password |-> "default_password"]
  /\ agentData = [agentId \in {"0xAa", "0xEe", "0xFf"} |->
                    GroupAgentData(agentId)]
  /\ files = [agentId \in {"0xAa", "0xEe", "0xFf"} |->
                encryptAgentData(GroupAgentData(agentId),
                                 "default_password", "iv1")]
  /\ registry = {}
  /\ keys = 0
  /\ pc = "idle"
  /\ call = NoCall
  /\ fund = NoFund
  /\ obs = NoObs
  /\ result = NoResult
  /\ returned = << >>
  /\ net = InitialGroup({})
  /\ clients = [agentId \in {"0xAa", "0xEe"} |-> NoDb]
  /\ clientAddresses = [agentId \in {"0xAa", "0xEe"} |->
                          toLowerCase(agentId)]
  /\ req = NoReq
  /\ used = NoUse
  /\ threads = NoThreads
  /\ created = NoCreated
  /\ held = [agentId \in {"0xAa", "0xEe"} |-> 1]
  /\ dms = << >>
  /\ msg = NoMsg
  /\ tx = NoTx
  /\ scan = NoScan
  /\ espace = NoESpace
  /\ funders = << >>
  /\ groupMessages = << >>

MsgNext ==
  \/ \E agentId \in {"0xAa", "0xFf", "0x99"}, recipient \in Recipients,
        contentType \in ContentTypes, replyTo \in BOOLEAN :
       SendMessage(agentId, recipient, contentType, replyTo)
  \/ CheckCanMessage
  \/ NewDmWithIdentifier
  \/ ConversationSend
  \/ \E agentId \in {"0xAa", "0xEe", "0xFf", "0x99"},
        contentType \in ContentTypes, replyTo \in BOOLEAN :
       SendGroupMessage(agentId, contentType, replyTo)
  \/ FindGroupConversation
  \/ GroupConversationSend
  \/ \E peer \in Peers : PeerSends(peer)
  \/ \E agentId \in {"0xAa", "0xFf", "0x99"},
        conversationId \in {""} \cup Peers, limit \in Limits :
       GetMessages(agentId, conversationId, limit)
  \/ ListConversations
  \/ FetchConversation
  \/ FetchNextConversation
  \/ MsgRespond

MsgSpec == MsgInit /\ [][MsgNext]_vars

\* ------------------------------------------------------ claims on messages
\* C25: getMessages without a conversation id, for a limit of at least 1
\* and at least one known conversation, returns at most limit messages: the
\* share of a conversation times the number of conversations does not
\* exceed the limit.
C25_FanOutKeepsLimit ==
  (/\ msg.op = "getMessages"
   /\ msg.conversationId = ""
   /\ msg.limit >= 1
   /\ Len(msg.conversations) >= 1)
    => /\ msg.messages <= msg.limit
       /\ msg.perConv * Len(msg.conversations) <= msg.limit

\* C26: a direct send asks canMessage before anything else; when the
\* recipient is not reachable the call rejects with the recipient-unreachable
\* error, having created no conversation and sent no message.
C26_ReachabilityIsCheckedFirst ==
  msg.op = "sendMessage"
    => /\ msg.requests # << >> => msg.requests[1] = "canMessage"
       /\ ~CanMessage(toLowerCase(msg.recipient))
            => /\ Len(msg.requests) <= 1
               /\ toLowerCase(msg.recipient) \notin DOMAIN dms
               /\ msg.messages = 0
               /\ (msg.pc = "done" /\ msg.requests # << >>
                   /\ msg.cause # "canMessage failed")
                    => msg.error = SendFailed /\ msg.cause = Unreachable

\* a send to an address without an inbox was refused, the agent having a
\* conversation with somebody else
C26_Witness ==
  /\ msg.op = "sendMessage"
  /\ msg.pc = "done"
  /\ msg.recipient = "0x00"
  /\ msg.requests = <<"canMessage">>
  /\ msg.cause = Unreachable
  /\ "0xbb" \in DOMAIN dms
  /\ dms["0xbb"] > 0

\* ------------------------------------------------ IdentityContract.register
\* contract.ts:37-120 on its own: the reads of the chain, the fees of the
\* transaction object, its signature and its broadcast.  Fees are in units
\* of 0.5 gwei.
\* rewards a block of the fee history may report: none, 0.5 gwei, 3 gwei
RewardValues == {0, 1, 6}
RewardLists == UNION {[1..n -> RewardValues] : n \in 0..MaxBlocks}
\* base fees of a block: 0, 2.5 gwei, 3.5 gwei
BaseFees == {0, 5, 7}
\* feeHistory.baseFeePerGas: missing, or ending with the next block's fee
BaseFeeLists == {<< >>} \cup {<<5, b>> : b \in BaseFees}

\* .filter((r) => r) on bigints (contract.ts:64): 0n is falsy
RECURSIVE Truthy(_)
Truthy(seq) ==
  IF seq = << >> THEN << >>
  ELSE LET rest == Truthy(SubSeq(seq, 2, Len(seq)))
       IN IF seq[1] = 0 THEN rest ELSE <<seq[1]>> \o rest

\* Array.prototype.sort((a, b) => Number(a) - Number(b)) (contract.ts:67)
RECURSIVE Sorted(_)
Sorted(seq) ==
  IF seq = << >> THEN << >>
  ELSE LET i == CHOOSE k \in 1..Len(seq) : \A j \in 1..Len(seq) :
                                             seq[k] <= seq[j]
       IN <<seq[i]>> \o
          Sorted([j \in 1..(Len(seq) - 1) |->
                    IF j < i THEN seq[j] ELSE seq[j + 1]])

\* contract.ts:64-68: the tip before the minimum is enforced
SampledTip(reward) ==
  LET rewards == Truthy(reward)
  IN IF Len(rewards) > 0
       THEN Sorted(rewards)[(Len(rewards) \div 2) + 1]
       ELSE 2 * Gwei

\* contract.ts:70-73
NextBase(baseFeePerGas, latestBaseFee) ==
  IF Len(baseFeePerGas) > 0 THEN baseFeePerGas[Len(baseFeePerGas)]
  ELSE latestBaseFee

\* contract.ts:75-78
WithMinimumTip(tip) == IF tip < Gwei THEN Gwei ELSE tip

PrivateKeyRequired == "private_key is required to sign the transaction"

\* the call rejects with this error
TxThrow(t, error) == tx' = [t EXCEPT !.pc = "done", !.error = error]

\* what a step of register leaves alone
txRest ==
  <<idVars, groupVars, threads, created, held, dms, msg, scan, espace,
    funders, groupMessages>>

\* contract.ts:37-43
ContractRegister(privateKey) ==
  /\ tx.pc = "idle"
  /\ IF ~privateKey
       THEN TxThrow(NoTx, PrivateKeyRequired)
       ELSE tx' = [NoTx EXCEPT !.pc = "block"]
  /\ UNCHANGED txRest

\* contract.ts:43-56: chain id, latest block and nonce settle
GetLatestBlock ==
  /\ tx.pc = "block"
  /\ \/ \E baseFee \in BaseFees :
          tx' = [tx EXCEPT !.hasBaseFee = TRUE, !.baseFee = baseFee,
                           !.pc = "feeHistory"]
     \/ tx' = [tx EXCEPT !.pc = "gasPrice"]
     \/ TxThrow(tx, "chain read failed")
  /\ UNCHANGED txRest

\* mutant: the rejection of getFeeHistory is not caught
GetFeeHistoryUncaught ==
  /\ tx.pc = "feeHistory"
  /\ \/ \E reward \in RewardLists, baseFeePerGas \in BaseFeeLists :
          LET tip == WithMinimumTip(SampledTip(reward))
          IN tx' = [tx EXCEPT
                      !.sampled = "ok", !.reward = reward,
                      !.baseFeePerGas = baseFeePerGas,
                      !.maxPriorityFeePerGas = tip,
                      !.maxFeePerGas =
                         NextBase(baseFeePerGas, tx.baseFee) * 2 + tip,
                      !.type = 2, !.pc = "sign"]
     \/ TxThrow([tx EXCEPT !.sampled = "failed"], "getFeeHistory failed")
  /\ UNCHANGED txRest

\* contract.ts:60-105: getFeeHistory settles and the transaction is built
GetFeeHistory ==
  /\ tx.pc = "feeHistory"
  /\ \/ \E reward \in RewardLists, baseFeePerGas \in BaseFeeLists :
          LET tip == WithMinimumTip(SampledTip(reward))
          IN tx' = [tx EXCEPT
                      !.sampled = "ok", !.reward = reward,
                      !.baseFeePerGas = baseFeePerGas,
                      !.maxPriorityFeePerGas = tip,
                      !.maxFeePerGas =
                         NextBase(baseFeePerGas, tx.baseFee) * 2 + tip,
                      !.type = 2, !.pc = "sign"]
     \/ tx' = [tx EXCEPT
                 !.sampled = "failed",
                 !.maxPriorityFeePerGas = 2 * Gwei,
                 !.maxFeePerGas = tx.baseFee * 2 + 2 * Gwei,
                 !.type = 2, !.pc = "sign"]
  /\ UNCHANGED txRest

\* contract.ts:106-114: the legacy transaction
GetGasPrice ==
  /\ tx.pc = "gasPrice"
  /\ \/ \E gasPrice \in BaseFees \ {0} :
          tx' = [tx EXCEPT !.gasPrice = gasPrice, !.pc = "sign"]
     \/ TxThrow(tx, "getGasPrice failed")
  /\ UNCHANGED txRest

\* contract.ts:116
SignTransaction ==
  /\ tx.pc = "sign"
  /\ \/ tx' = [tx EXCEPT !.signed = TRUE, !.pc = "send"]
     \/ TxThrow(tx, "signTransaction failed")
  /\ UNCHANGED txRest

\* contract.ts:117-119
SubmitTransaction ==
  /\ tx.pc = "send"
  /\ \/ tx' = [tx EXCEPT !.submitted = TRUE, !.pc = "done"]
     \/ TxThrow([tx EXCEPT !.submitted = TRUE], "sendSignedTransaction failed")
  /\ UNCHANGED txRest

\* agent.ts:93-99, 112-116: registerId takes the hash or logs the error
TxRespond ==
  /\ tx.pc = "done"
  /\ tx' = NoTx
  /\ UNCHANGED txRest

FeeInit ==
  /\ env = [coreRpcUrl |-> FALSE, corePk |-> FALSE, fundAmountCfx |-> 0,
            password |-> "default_password"]
  /\ agentData = << >>
  /\ files = << >>
  /\ registry = {}
  /\ keys = 0
  /\ pc = "idle"
  /\ call = NoCall
  /\ fund = NoFund
  /\ obs = NoObs
  /\ result = NoResult
  /\ returned = << >>
  /\ NoGroupActivity
  /\ NoServiceActivity

FeeNext ==
  \/ \E privateKey \in BOOLEAN : ContractRegister(privateKey)
  \/ GetLatestBlock
  \/ GetFeeHistory
  \/ GetGasPrice
  \/ SignTransaction
  \/ SubmitTransaction
  \/ TxRespond

FeeSpec == FeeInit /\ [][FeeNext]_vars

\* ---------------------------------------------------------- claims on fees
\* C27: when getFeeHistory fails on a chain whose latest block exposes a
\* base fee, register still builds a type 2 transaction with a tip of
\* 2 gwei and a max fee of twice the latest block's base fee plus the tip,
\* and goes on to sign and broadcast it; the sampling error is not the
\* error of register.
C27_SamplingFailureFallsBack ==
  (tx.sampled = "failed" /\ tx.hasBaseFee)
    => /\ tx.type = 2
       /\ tx.maxPriorityFeePerGas = 2 * Gwei
       /\ tx.maxFeePerGas = 2 * tx.baseFee + tx.maxPriorityFeePerGas
       /\ tx.pc \in {"sign", "send", "done"}
       /\ tx.error \in {"none", "signTransaction failed",
                        "sendSignedTransaction failed"}
       /\ tx.pc = "done" => (tx.signed => tx.submitted)
       /\ (tx.pc = "done" /\ tx.error = "none") => tx.submitted

\* the sampling failed and the fallback transaction was broadcast
C27_Witness ==
  /\ tx.pc = "done"
  /\ tx.sampled = "failed"
  /\ tx.baseFee = 5
  /\ tx.maxFeePerGas = 14
  /\ tx.submitted
  /\ tx.error = "none"

\* the medians of a list of samples: its middle element, or what lies
\* between its two middle elements
Medians(samples) ==
  LET sorted == Sorted(samples)
      n == Len(samples)
  IN sorted[(n + 1) \div 2] .. sorted[(n \div 2) + 1]

\* C28: with a fee history, the tip is the median of the sampled rewards
\* raised to at least 1 gwei and the max fee is twice the most recent base
\* fee plus the tip; every type 2 transaction has a tip of at least 1 gwei
\* and a max fee of at least the tip.
C28_TipIsFlooredMedian ==
  /\ (tx.sampled = "ok" /\ tx.reward # << >>)
       => /\ \E m \in Medians(tx.reward) :
               tx.maxPriorityFeePerGas = IF m < Gwei THEN Gwei ELSE m
          /\ tx.maxFeePerGas =
               2 * NextBase(tx.baseFeePerGas, tx.baseFee)
                 + tx.maxPriorityFeePerGas
  /\ tx.type = 2
       => /\ tx.maxPriorityFeePerGas >= Gwei
          /\ tx.maxFeePerGas >= tx.maxPriorityFeePerGas

\* ------------------------------------------------- Agent.collectIdentities
\* collectIdentities (agent.ts:179-186) with IdentityContract.getAllEntries
\* (contract.ts:126-172), one call at a time
\* the Registered events of the registry, oldest first: an owner that
\* registered again has several
EventLogs(owners) == UNION {[1..n -> owners] : n \in 0..MaxLogs}

\* what a step of collectIdentities leaves alone
scanRest ==
  <<env, agentData, files, keys, pc, call, fund, obs, result, returned,
    groupVars, threads, created, held, dms, msg, tx, espace, funders,
    groupMessages>>

\* server.ts:123-125, agent.ts:179-181 and contract.ts:126-135, up to the
\* await of getPastLogs
CollectIdentities ==
  /\ scan.pc = "idle"
  /\ scan' = [NoScan EXCEPT !.pc = "logs"]
  /\ UNCHANGED <<registry, scanRest>>

\* contract.ts:130-154 and agent.ts:182-185: getPastLogs settles; its
\* rejection is caught by collectIdentities, which resolves with []
GetPastLogs ==
  /\ scan.pc = "logs"
  /\ \/ \E logs \in EventLogs(registry) :
          /\ \A owner \in registry : owner \in Range(logs)
          /\ scan' = [scan EXCEPT
                        !.owners = Unique(logs),
                        !.pc = IF logs = << >> THEN "done" ELSE "entry"]
     \/ scan' = [scan EXCEPT !.logsFailed = TRUE, !.pc = "done"]
  /\ UNCHANGED <<registry, scanRest>>

\* contract.ts:156-171: getEntry of the next owner settles
GetEntry ==
  /\ scan.pc = "entry"
  /\ LET owner == scan.owners[scan.idx]
         next == [scan EXCEPT
                    !.idx = @ + 1,
                    !.pc = IF scan.idx = Len(scan.owners) THEN "done"
                           ELSE "entry"]
     IN \/ scan' = [next EXCEPT
                      !.entries = Append(@, [owner |-> owner,
                                             agentId |-> owner])]
        \/ scan' = [next EXCEPT !.skipped = Append(@, owner)]
  /\ UNCHANGED <<registry, scanRest>>

\* server.ts:127-130: the response is sent
ScanRespond ==
  /\ scan.pc = "done"
  /\ scan' = NoScan
  /\ UNCHANGED <<registry, scanRest>>

\* another agent registers with the contract
OwnerRegisters(owner) ==
  /\ Cardinality(registry) < MaxLogs
  /\ registry' = registry \cup {owner}
  /\ UNCHANGED <<scan, scanRest>>

DirectoryInit ==
  /\ env = [coreRpcUrl |-> FALSE, corePk |-> FALSE, fundAmountCfx |-> 0,
            password |-> "default_password"]
  /\ agentData = << >>
  /\ files = << >>
  /\ registry = {}
  /\ keys = 0
  /\ pc = "idle"
  /\ call = NoCall
  /\ fund = NoFund
  /\ obs = NoObs
  /\ result = NoResult
  /\ returned = << >>
  /\ NoGroupActivity
  /\ NoServiceActivity

DirectoryNext ==
  \/ CollectIdentities
  \/ GetPastLogs
  \/ GetEntry
  \/ ScanRespond
  \/ \E owner \in RegisteredAgents : OwnerRegisters(owner)

DirectorySpec == DirectoryInit /\ [][DirectoryNext]_vars

\* C29: apart from the funding and registration failures inside registerId,
\* no failure is swallowed: a collectIdentities call whose log scan failed,
\* or which could not read the entry of an owner, rejects.
C29_NoFailureIsSwallowed ==
  (scan.pc = "done" /\ (scan.logsFailed \/ scan.skipped # << >>))
    => scan.threw

\* C30: getCallerInboxId gives null exactly when the agent is not a member:
\* a call that fails with the caller-not-member error, the group left alone
\* by others since the call began, comes from an agent whose wallet address
\* is linked to no member, and an inbox id it resolves is the one of the
\* member the agent's wallet address is linked to.
C30_NullOnlyForNonMembers ==
  /\ (/\ req.kind # "none"
      /\ req.error = CallerNotMember
      /\ used.changes = req.changesAtStart)
       => ~CallerMatchesMember(req.agentId, req.groupAtStart)
  /\ (req.kind # "none" /\ req.callerInboxId # NoInbox)
       => /\ req.callerInboxId \in req.groupAtCheck.members
          /\ toLowerCase(req.agentId)
               \in Range(AccountIdentifiers[req.callerInboxId])

\* ------------------------------------------- thresholds of registerIdentity
\* contract.register has been called by the current registerId
RegistrationSubmitted == pc \in {"register", "send"} \/ obs.registerCalls > 0

\* fundESpaceAccount has been called by the current registerId
FundingInvoked == pc = "fund" \/ obs.fundCalls > 0

\* the balance read last is at or above a threshold: the re-read of
\* agent.ts:79 when there was one, the first read otherwise (of which obs
\* keeps the comparison with minBalance)
LastReadAtLeast(threshold) ==
  IF obs.newBalance # NoBalance
    THEN obs.newBalance >= threshold
    ELSE obs.firstRead = "enough" /\ threshold <= minBalance

\* C31 as stated: funding is invoked exactly when the first balance read is
\* below minBalance, and the registration is submitted only if the balance
\* read last is at or above minBalance
C31_OneThreshold ==
  obs.firstRead # "none" =>
    /\ FundingInvoked <=> obs.firstRead = "below"
    /\ RegistrationSubmitted => LastReadAtLeast(minBalance)

\* C31 amended: funding is invoked (once) exactly when the first balance read
\* is below minBalance; the registration is submitted only if the first read
\* was at or above minBalance or, after funding, the re-read was at or above
\* the lower threshold regMinBalance
C31_TwoThresholds ==
  /\ obs.fundCalls <= 1
  /\ obs.firstRead = "none" => ~FundingInvoked /\ ~RegistrationSubmitted
  /\ obs.firstRead # "none" =>
       /\ FundingInvoked <=> obs.firstRead = "below"
       /\ RegistrationSubmitted =>
            IF FundingInvoked
              THEN /\ fund.status = "ok"
                   /\ obs.balanceReads = 2
                   /\ obs.newBalance >= regMinBalance
              ELSE /\ obs.balanceReads = 1
                   /\ obs.newBalance = NoBalance
                   /\ LastReadAtLeast(minBalance)

\* a registration submitted after funding on a re-read balance between the
\* two thresholds
C31_Witness ==
  /\ obs.registerCalls = 1
  /\ obs.fundCalls = 1
  /\ obs.firstRead = "below"
  /\ obs.newBalance >= regMinBalance
  /\ obs.newBalance < minBalance

\* ------------------------------ fundESpaceAccount calls for the same address
\* the calls in progress; each has its own locals and shares nothing with
\* the others but the chain
Funders == 1..MaxFunders

IdleFunder ==
  [pc |-> "idle",          \* idle | check | transfer | poll | done | failed
   fundAmountCfx |-> 0,    \* funding.ts:18
   currentBalance |-> NoBalance, \* what the read of funding.ts:41 returned
   transfers |-> 0,        \* transferEVM transactions sent (funding.ts:60-64)
   attempts |-> 0,         \* funding.ts:70
   error |-> ""]

fundersRest ==
  <<idVars, groupVars, threads, created, held, dms, msg, tx, scan,
    groupMessages>>

\* funding.ts:88-91 and the throws outside the try block; the loop counter
\* goes with the frame of the call
FunderThrow(i, f, message) ==
  funders' = [funders EXCEPT ![i] = [f EXCEPT !.pc = "failed",
                                              !.error = message,
                                              !.attempts = 0]]

\* funding.ts:15-37: the configuration checks, up to the first await
ConcurrentFundESpaceAccount(i) ==
  /\ funders[i].pc = "idle"
  /\ LET f == [IdleFunder EXCEPT !.fundAmountCfx = env.fundAmountCfx]
     IN IF Unconfigured(env)
          THEN FunderThrow(i, f, ConfigurationRequired)
          ELSE IF f.fundAmountCfx <= 0
            THEN FunderThrow(i, f,
                             "ESPACE_FUND_AMOUNT_CFX must be greater than 0")
            ELSE funders' = [funders EXCEPT ![i] = [f EXCEPT !.pc = "check"]]
  /\ UNCHANGED <<fundersRest, espace>>

\* mutant: the calls for one address take turns; a call reads the balance
\* only when no other call is between its read and its return
ConcurrentCheckBalanceInTurn(i) ==
  /\ funders[i].pc = "check"
  /\ \A j \in Funders \ {i} : funders[j].pc \notin {"transfer", "poll"}
  /\ \/ LET f == [funders[i] EXCEPT !.currentBalance = espace.balance]
        IN funders' = [funders EXCEPT ![i] =
             [f EXCEPT !.pc =
                IF HasSufficientBalance(espace.balance, f.fundAmountCfx)
                  THEN "done" ELSE "transfer"]]
     \/ FunderThrow(i, funders[i], "getBalance failed")
  /\ UNCHANGED <<fundersRest, espace>>

\* funding.ts:40-47: read the balance of the address; return when it is
\* enough
ConcurrentCheckBalance(i) ==
  /\ funders[i].pc = "check"
  /\ \/ LET f == [funders[i] EXCEPT !.currentBalance = espace.balance]
        IN funders' = [funders EXCEPT ![i] =
             [f EXCEPT !.pc =
                IF HasSufficientBalance(espace.balance, f.fundAmountCfx)
                  THEN "done" ELSE "transfer"]]
     \/ FunderThrow(i, funders[i], "getBalance failed")
  /\ UNCHANGED <<fundersRest, espace>>

\* funding.ts:58-70: send the cross-space transfer and await its receipt; a
\* transfer that was executed with success is owed to the address
ConcurrentTransfer(i) ==
  /\ funders[i].pc = "transfer"
  /\ \/ \E outcomeStatus \in {"success", "failed"} :
          /\ funders' = [funders EXCEPT ![i] =
               [@ EXCEPT !.transfers = @ + 1, !.attempts = 0, !.pc = "poll"]]
          /\ espace' = [espace EXCEPT !.pending =
               @ + (IF outcomeStatus = "success" THEN 1 ELSE 0)]
     \/ /\ FunderThrow(i, funders[i], "transfer failed")
        /\ UNCHANGED espace
  /\ UNCHANGED fundersRest

\* the eSpace node the calls read from catches up with an executed transfer
BalanceReflected ==
  /\ espace.pending > 0
  /\ espace' = [balance |-> espace.balance + env.fundAmountCfx,
                pending |-> espace.pending - 1]
  /\ UNCHANGED <<fundersRest, funders>>

\* funding.ts:73-87: one turn of the loop, or the throw after it
ConcurrentPollBalance(i) ==
  /\ funders[i].pc = "poll"
  /\ IF PollAgain(funders[i].attempts)
       THEN \/ funders' = [funders EXCEPT ![i] =
                 IF HasSufficientBalance(espace.balance, @.fundAmountCfx)
                   THEN [@ EXCEPT !.pc = "done", !.attempts = 0]
                   ELSE [@ EXCEPT !.attempts = @ + 1]]
            \/ FunderThrow(i, funders[i], "getBalance failed")
       ELSE FunderThrow(i, funders[i], TimeoutMessage)
  /\ UNCHANGED <<fundersRest, espace>>

\* the address holds nothing, or one funding amount
ConcurrentFundInit ==
  /\ env \in [coreRpcUrl : BOOLEAN, corePk : {TRUE},
              fundAmountCfx : {0, defaultFundAmount},
              password : {"default_password"}]
  /\ agentData = << >>
  /\ files = << >>
  /\ registry = {}
  /\ keys = 0
  /\ pc = "idle"
  /\ call = NoCall
  /\ fund = NoFund
  /\ obs = NoObs
  /\ result = NoResult
  /\ returned = << >>
  /\ NoGroupActivity
  /\ threads = NoThreads
  /\ created = NoCreated
  /\ held = << >>
  /\ dms = << >>
  /\ msg = NoMsg
  /\ tx = NoTx
  /\ scan = NoScan
  /\ espace \in [balance : {0, defaultFundAmount}, pending : {0}]
  /\ funders = [i \in Funders |-> IdleFunder]
  /\ groupMessages = << >>

ConcurrentFundNext ==
  \/ \E i \in Funders : ConcurrentFundESpaceAccount(i)
  \/ \E i \in Funders : ConcurrentCheckBalance(i)
  \/ \E i \in Funders : ConcurrentTransfer(i)
  \/ \E i \in Funders : ConcurrentPollBalance(i)
  \/ BalanceReflected

ConcurrentFundSpec == ConcurrentFundInit /\ [][ConcurrentFundNext]_vars

\* C32: funding calls for the same address are not serialized.  A call that
\* is about to read the balance, or about to send its transfer, can do so
\* whatever the other calls for the address are doing, and whether it sends
\* a transfer depends on nothing but the balance it read itself.
C32_NotSerialized ==
  \A i \in Funders :
    /\ funders[i].pc = "check" => ENABLED ConcurrentCheckBalance(i)
    /\ funders[i].pc = "transfer" =>
         /\ ENABLED ConcurrentTransfer(i)
         /\ funders[i].currentBalance < funders[i].fundAmountCfx
    /\ funders[i].transfers <= 1

\* two calls for one address both read an insufficient balance and both
\* sent a transfer
C32_Witness ==
  \E i, j \in Funders :
    /\ i # j
    /\ funders[i].currentBalance # NoBalance
    /\ funders[j].currentBalance # NoBalance
    /\ funders[i].currentBalance < funders[i].fundAmountCfx
    /\ funders[j].currentBalance < funders[j].fundAmountCfx
    /\ funders[i].transfers = 1
    /\ funders[j].transfers = 1

\* ------------------------------------------------- the two role sets
\* C33: no step of addMembers, promote or demote changes the super admins
\* of the group; a step of promote or demote changes at most the admins, a
\* step of addMembers at most the members.
C33_SuperAdminsUntouched ==
  [][used'.changes = used.changes =>
       /\ net'.superAdmins = net.superAdmins
       /\ req.kind \in {"addAdmins", "removeAdmins"} =>
            net'.members = net.members
       /\ req.kind = "addMembers" => net'.admins = net.admins]_vars

\* a super admin that was in the admin set was demoted, and is a super
\* admin still
C33_Witness ==
  /\ req.kind = "removeAdmins"
  /\ \E k \in DOMAIN req.requests :
       /\ req.outcomes[k] = "ok"
       /\ req.requests[k].inboxId \in net.superAdmins
       /\ req.requests[k].inboxId \notin net.admins

\* ------------------------------------------- roles after add and promote
\* what listGroupMembers returns to an agent when it is called now
ListedNow(agentId) ==
  Membership(SyncedDb(clients'[agentId], InboxOfAgent(agentId), net'))

\* C34: when an addMembers request succeeds on a group whose admins and
\* super admins are members, the inboxes it added are members in neither
\* the admin nor the super admin set; when a promote
\* request succeeds, the next listing of the members, by the caller or by any
\* other client that holds the group, has the promoted inbox among the
\* admins; and a listing returns the admins the network holds.
C34_RolesAfterAddAndPromote ==
  [][/\ (/\ req.pc = "add" /\ req'.pc = "done" /\ req'.error = "none"
         /\ net.admins \cup net.superAdmins \subseteq net.members) =>
          /\ net'.members \ net.members
               = {InboxOfIdentifier(t) : t \in Range(req.targets)} \ net.members
          /\ \A inbox \in net'.members \ net.members :
               inbox \notin net'.admins /\ inbox \notin net'.superAdmins
     /\ (req.kind = "addAdmins" /\ Len(req'.changed) > Len(req.changed)) =>
          LET inbox == InboxOfTarget(req.targets[req.idx], req.membership)
          IN /\ req'.changed[Len(req'.changed)] = req.targets[req.idx]
             /\ inbox \in net'.admins
             /\ \A x \in DOMAIN clients :
                  ListedNow(x).members # {} => inbox \in ListedNow(x).admins
     /\ (req.pc = "list" /\ req'.pc = "loop") =>
          req'.membership.admins = net.admins]_vars

\* D was added and is a plain member, and the promote of B has returned
\* with B in promoted
C34_Witness ==
  /\ "id" \in net.members
  /\ "id" \notin net.admins \cup net.superAdmins
  /\ req.kind = "addAdmins"
  /\ req.agentId = "0xAa"
  /\ req.pc = "done"
  /\ "0xbb" \in Range(req.changed)
  /\ "ib" \in net.admins

\* --------------------------------------------------- admins are members
\* C38: a promote request is sent only for an inbox id of the member list
\* the same call fetched; and as long as nothing but addMembers, promote and
\* demote has acted on the group, every admin inbox id is a member inbox id.
C38_AdminsAreMembers ==
  /\ \A k \in DOMAIN req.requests :
       req.requests[k].kind = "addAdmins" =>
         \E m \in req.membership.members :
           m.inboxId = req.requests[k].inboxId
  /\ used.changes = 0 => net.admins \subseteq net.members

\* promote and addMembers have both succeeded on a group nothing else has
\* touched, and its admin set is not the initial one
C38_Witness ==
  /\ used.changes = 0
  /\ used.ops = MaxOps
  /\ req.kind = "addAdmins"
  /\ req.pc = "done"
  /\ req.changed # << >>
  /\ "id" \in net.members
  /\ net.admins # {}

\* ------------------------------------------------- content kind of a send
\* a direct or group send asked for a reply and gave no reference message id
ReplyWithoutReference ==
  /\ msg.op \in {"sendMessage", "sendGroupMessage"}
  /\ msg.contentType = "reply"
  /\ ~msg.replyTo

\* C35: a send, direct or to the group, of content kind reply with no
\* reference message id never reaches conversation.send and ends in an
\* error with no message sent; a message sent by a call that gave no
\* content kind has the text encoding.
C35_ReplyNeedsReference ==
  /\ ReplyWithoutReference =>
       /\ "send" \notin Range(msg.requests)
       /\ msg.messages = 0
       /\ msg.pc = "done" => msg.error # "none"
  /\ (/\ msg.op \in {"sendMessage", "sendGroupMessage"}
      /\ msg.contentType = "undefined"
      /\ msg.messages = 1) =>
       msg.encoding = "ContentTypeText"
  /\ \A k \in DOMAIN groupMessages :
       /\ groupMessages[k].contentType = "undefined" =>
            groupMessages[k].encoding = "ContentTypeText"
       /\ groupMessages[k].encoding = "ContentTypeReply" =>
            groupMessages[k].contentType = "reply"

\* a message without a content kind is in the group with the text encoding,
\* and a later group reply without a reference was refused for that reason
C35_Witness ==
  /\ \E k \in DOMAIN groupMessages :
       /\ groupMessages[k].contentType = "undefined"
       /\ groupMessages[k].encoding = "ContentTypeText"
  /\ ReplyWithoutReference
  /\ msg.op = "sendGroupMessage"
  /\ msg.pc = "done"
  /\ msg.cause = ReplyToRequired

\* ------------------------------------------------ funding not configured
\* C36: when CORE_PK or CORE_RPC_URL is not set, a fundESpaceAccount call
\* rejects at once, with no balance read and no transfer sent, and the
\* registerId that made the call returns its result without a registration:
\* contract.register is not called and the result has no transaction hash.
C36_UnconfiguredFundingSkipsRegistration ==
  ((~env.coreRpcUrl \/ ~env.corePk) /\ obs.fundCalls > 0) =>
    /\ fund.status = ConfigurationRequired
    /\ fund.transfers = 0
    /\ fund.reads = 0
    /\ fund.path = <<"Failed">>
    /\ obs.registerCalls = 0
    /\ obs.submitted = 0
    /\ call.agentId \notin registry
    /\ pc = "idle"
    /\ result = RegistrationResult(call, NoHash)
    /\ result.ok

\* the funding account is not configured, the first balance was too low,
\* and registerId has returned
C36_Witness ==
  /\ env.coreRpcUrl
  /\ ~env.corePk
  /\ obs.fundCalls = 1
  /\ obs.firstRead = "below"
  /\ RegisterEnded
  /\ result.ok
  /\ call.agentId \in DOMAIN returned

\* --------------------------------------------------- what stays in memory
\* C37: when no request is being served, the in-memory agent table holds
\* no identity that was not there at the start: no entry, and so no
\* decrypted private key, is left behind by registerId or recallId.
C37_NoIdentityKeptInMemory ==
  pc = "idle" =>
    \A agentId \in DOMAIN agentData :
      /\ agentId \notin DOMAIN returned
      /\ agentData[agentId].privateKey \notin {PrivateKeyOf(k) : k \in 1..keys}

\* ------------------------------------------------- a failed persist step
\* getActiveAgentsCount (agent.ts:330-332)
getActiveAgentsCount == Cardinality(DOMAIN agentData)

\* the guard of the messaging operations (agent.ts:194-196)
PassesGuard(agentId) == agentId \in DOMAIN agentData

\* C39: when registerId has rejected at the save, the agent it was creating
\* is not in the in-memory table: it does not pass the guard of the
\* messaging operations, and only the agents whose registerId returned are
\* counted as active.
C39_FailedPersistLeavesNoAgent ==
  (RegisterEnded /\ ~result.ok /\ ~obs.persisted) =>
    /\ ~PassesGuard(call.agentId)
    /\ getActiveAgentsCount = Cardinality(DOMAIN returned)

\* ------------------------------------------- requests of agents not online
\* isOnline (agent.ts:326-328)
isOnline(agentId) == agentId \in DOMAIN agentData /\ HasClient(agentId)

\* "0xAa" was registered by this process and is in the in-memory table;
\* "0xBb" has a record on disk only; nobody has gone online, and the group
\* exists on the network
LiveInit ==
  /\ env = [coreRpcUrl |-> FALSE, corePk |-> FALSE, fundAmountCfx |-> 0,
            password |-> "default_password"]
  /\ agentData = [agentId \in {"0xAa"} |-> GroupAgentData(agentId)]
  /\ files = [agentId \in DOMAIN SessionPasswords |->
                encryptAgentData(GroupAgentData(agentId),
                                 SessionPasswords[agentId], "iv1")]
  /\ registry = {}
  /\ keys = 0
  /\ pc = "idle"
  /\ call = NoCall
  /\ fund = NoFund
  /\ obs = NoObs
  /\ result = NoResult
  /\ returned = << >>
  /\ NoGroupActivity
  /\ threads = [i \in Threads |-> IdleThread]
  /\ created = [calls |-> 0,
                clients |-> [a \in SessionAgents |-> 0],
                overlapped |-> [a \in SessionAgents |-> FALSE]]
  /\ held = << >>
  /\ dms = << >>
  /\ msg = NoMsg
  /\ tx = NoTx
  /\ scan = NoScan
  /\ espace = NoESpace
  /\ funders = << >>
  /\ groupMessages = << >>

\* goOnline, the sends and the group operations, served side by side
LiveNext ==
  \/ \E password \in Passwords : GoOnline(1, "0xAa", password)
  \/ LoadAndDecrypt(1)
  \/ ClientCreate(1)
  \/ StoreAgentData(1)
  \/ GoOnlineRespond(1)
  \/ SendMessage("0xAa", "0xdd", "text", FALSE)
  \/ CheckCanMessage
  \/ NewDmWithIdentifier
  \/ ConversationSend
  \/ SendGroupMessage("0xAa", "text", FALSE)
  \/ FindGroupConversation
  \/ GroupConversationSend
  \/ MsgRespond
  \/ \E kind \in GroupKinds : CallGroupOperation(kind, "0xAa", <<"0xBb">>)
  \/ SyncConversation
  \/ ResolveCallerAndAuthorize
  \/ AddMembersByIdentifiers
  \/ ListGroupMembers
  \/ ChangeRole
  \/ Respond

LiveSpec == LiveInit /\ [][LiveNext]_vars

\* C40: a send or a group operation contacts the network only for an agent
\* that has a client, and a client exists only where a goOnline call made
\* one and returned true or is about to; a call for an agent without a
\* client has ended in an error before its first request.  isOnline holds
\* of an agent exactly when it is in the in-memory table and XMTPClient
\* holds a client for it.
C40_NoSessionNoNetwork ==
  /\ (msg.requests # << >> \/ msg.pc \notin {"idle", "done"}) =>
       /\ HasClient(msg.agentId)
       /\ created.clients[msg.agentId] >= 1
  /\ (req.requests # << >> \/ req.syncs > 0
        \/ req.pc \notin {"idle", "done"}) =>
       /\ HasClient(req.agentId)
       /\ created.clients[req.agentId] >= 1
  /\ \A k \in DOMAIN groupMessages : HasClient(groupMessages[k].sender)
  /\ (msg.pc = "done" /\ ~HasClient(msg.agentId)) =>
       /\ msg.error \in {AgentNotOnline, ClientNotFound}
       /\ msg.requests = << >>
       /\ msg.messages = 0
  /\ (req.pc = "done" /\ ~HasClient(req.agentId)) =>
       /\ req.error \in {AgentNotOnline, ClientNotFound}
       /\ req.requests = << >>
       /\ req.syncs = 0
  /\ \A i \in Threads :
       threads[i].result = "false" => threads[i].made = 0
  /\ \A a \in DOMAIN SessionPasswords :
       /\ HasClient(a) <=> a \in DOMAIN held
       /\ HasClient(a) <=> created.clients[a] >= 1
       /\ isOnline(a) <=> (a \in DOMAIN agentData /\ a \in DOMAIN held)

\* "0xAa" is registered, its goOnline has just returned false, and its
\* send and its promote were both refused for want of a client
C40_Witness ==
  /\ "0xAa" \in DOMAIN agentData
  /\ ~HasClient("0xAa")
  /\ threads[1].agentId = "0xAa"
  /\ threads[1].result = "false"
  /\ msg.op = "sendMessage"
  /\ msg.agentId = "0xAa"
  /\ msg.error = ClientNotFound
  /\ req.kind = "addAdmins"
  /\ req.agentId = "0xAa"
  /\ req.error = ClientNotFound

====
